---------------------------- MODULE Spec2Model ----------------------------
(***************************************************************************)
(* Tamagitto backend: the Entity model (models/entity.py), the Repository  *)
(* model (models/repository.py), the entity service                        *)
(* (services/entity_service.py) and the routes that drive them             *)
(* (routers/entities.py, routers/repositories.py).                         *)
(*                                                                         *)
(* Time is counted in whole hours; a timestamp column holds the hour at    *)
(* which it was written, or None.                                          *)
(***************************************************************************)
EXTENDS Integers, Sequences, FiniteSets, TLC

\* ------------------------------------------------------------------ bounds
MaxNow == 1            \* the clock stops advancing after this many hours
MaxHistory == 3        \* health writes are taken while fewer rows exist
MaxDays == 14          \* largest whole-day inactivity handed to the decay
MaxRequests == 2       \* create requests in flight at once
MaxAnalyses == 2       \* push deliveries are taken while they fit this many rows
MaxSessions == 2       \* sign-ins are taken while fewer sessions exist
MaxSockets == 2        \* WebSocket objects alive at a time

\* ------------------------------------------------------- program constants
None == -1             \* a NULL timestamp / NULL reference
MinHealth == 0
MaxHealth == 100
DyingThreshold == 15
GraceDays == 3
DecayPerDay == 2
DecayCap == 20
ManualBound == 50
ReviveMin == 1
ReviveMax == 50
ResetCooldownHours == 48
MinImpact == -20
MaxImpact == 20
MinSizeFactor == 50    \* size_factor bounds 0.5 and 1.5, in hundredths
MaxSizeFactor == 150
DefaultQuality == 60
AccessTokenExpireHours == 24
RefreshTokenExpireHours == 720
StaleSeconds == 300

\* -------------------------------------------------------------- input sets
\* entity types a create request asks for (the catalog also holds "plant")
EntityTypes == {"pet", "creature"}
\* health_impact of a CommitAnalysis (the analysis service keeps it in -20..20)
HealthImpacts == {-20, 20}
\* health_change of a manual update request; the route accepts -50..50
HealthChanges == {-51, -50, -30, 10, 51}
\* initial_health of a revive request (the route's Query(ge=1, le=50))
InitialHealths == {0, 15, 30, 51}
\* arguments handed straight to the Entity methods
NewHealths == {-150, -1, 0, 1, 15, 16, 40, 100, 101, 250}
Deltas == {-150, -25, -11, -5, 0, 5, 30, 150}
DecayDays == 0 .. MaxDays
\* whole days since last_monitored_at when the decay route is called
ElapsedDays == {0, GraceDays, 5, MaxDays}

Max(a, b) == IF a >= b THEN a ELSE b
Min(a, b) == IF a <= b THEN a ELSE b

VARIABLES
    now,            \* datetime.utcnow(), in hours
    repositories,   \* rows of table repositories
    entities,       \* rows of table entities
    tx,             \* the open transaction of each create request
    result,         \* what the last call returned
    users,          \* rows of table users
    user_sessions,  \* rows of table user_sessions
    commit_analyses,   \* rows of table commit_analyses
    in_flight,         \* the push deliveries being handled: where each is and
                       \* its local variables
    active_connections, \* ConnectionManager: user id -> its open sockets
    connection_info,   \* ConnectionManager: socket -> its metadata
    cleanup            \* the cleanup thread: where it is and its local variables

\* the tables of the authentication layer
auth_vars == <<users, user_sessions>>

\* the tables of the analysis layer
analysis_vars == <<commit_analyses, in_flight>>

\* the connection registry of the WebSocket layer
ws_vars == <<active_connections, connection_info, cleanup>>

vars == <<now, repositories, entities, tx, result, auth_vars, analysis_vars, ws_vars>>

\* =========================================================== Entity model

\* EntityService.ENTITY_TYPES
ENTITY_TYPES ==
    [pet      |-> [base_health |-> 50, health_decay_rate |-> 2, max_cooldown_hours |-> 4],
     plant    |-> [base_health |-> 60, health_decay_rate |-> 1, max_cooldown_hours |-> 8],
     creature |-> [base_health |-> 40, health_decay_rate |-> 3, max_cooldown_hours |-> 2]]

\* HealthHistory(entity_id, health_score, change_reason, commit_analysis_id)
HealthHistory(health_score, change_reason, commit_analysis_id) ==
    [health_score |-> health_score, change_reason |-> change_reason,
     commit_analysis_id |-> commit_analysis_id]

NoHistory == [count |-> 0, newest |-> HealthHistory(0, "none", None)]

\* update_health without its history entry
Append_history_off(h, row) == h

\* health_history.append(row): the relationship is kept as the number of rows
\* and the newest row.
Append_history(h, row) == [count |-> h.count + 1, newest |-> row]

is_alive(e) == e.status = "alive"

is_dead(e) == e.status = "dead"

\* the clamp without its lower bound
Clamp_no_floor(new_health) == Min(MaxHealth, new_health)

\* new_health = max(0, min(100, new_health))
Clamp(new_health) == Max(MinHealth, Min(MaxHealth, new_health))

\* the chain with the dying threshold compared strictly
NextStatus_strict(status, new_health) ==
    IF new_health = 0 /\ status # "dead" THEN "dead"
    ELSE IF new_health < DyingThreshold /\ status = "alive" THEN "dying"
    ELSE IF new_health > DyingThreshold /\ status = "dying" THEN "alive"
    ELSE status

\* the if / elif / elif chain of update_health
NextStatus(status, new_health) ==
    IF new_health = 0 /\ status # "dead" THEN "dead"
    ELSE IF new_health <= DyingThreshold /\ status = "alive" THEN "dying"
    ELSE IF new_health > DyingThreshold /\ status = "dying" THEN "alive"
    ELSE status

\* Entity.update_health: the entity after the call, t = datetime.utcnow()
update_health(e, new_health, reason, commit_analysis_id, t) ==
    LET nh == Clamp(new_health)
        st == NextStatus(e.status, nh)
    IN [e EXCEPT !.health_score = nh,
                 !.status = st,
                 !.death_date = IF nh = 0 /\ e.status # "dead" THEN t ELSE @,
                 !.health_history =
                     Append_history(@, HealthHistory(nh, reason, commit_analysis_id))]

\* the value update_health returns, from the entity before and after
JustDied(e, e2) == e.status # "dead" /\ e2.status = "dead"

\* Entity.apply_health_delta
apply_health_delta(e, delta, reason, commit_analysis_id, t) ==
    update_health(e, e.health_score + delta, reason, commit_analysis_id, t)

\* the decay amount without the per-call cap
DecayAmount_uncapped(days_since_last_commit) ==
    (days_since_last_commit - GraceDays) * DecayPerDay

\* decay_amount = min(decay_days * 2, 20)
DecayAmount(days_since_last_commit) ==
    Min((days_since_last_commit - GraceDays) * DecayPerDay, DecayCap)

\* Entity.decay_health
decay_health(e, days_since_last_commit, t) ==
    IF ~is_alive(e) THEN e
    ELSE IF days_since_last_commit > GraceDays
         THEN apply_health_delta(e, -DecayAmount(days_since_last_commit),
                                 "daily_decay", None, t)
         ELSE e

\* Entity.reset_to_full_health
reset_to_full_health(e, reason) ==
    [e EXCEPT !.health_score = MaxHealth,
              !.status = "alive",
              !.death_date = None,
              !.health_history = Append_history(@, HealthHistory(MaxHealth, reason, None))]

\* Entity.time_until_cooldown_expires: hours left of the reset cooldown that
\* starts at the death timestamp, or None
time_until_cooldown_expires(e, t) ==
    IF e.death_date = None THEN None
    ELSE IF t < e.death_date + ResetCooldownHours
         THEN e.death_date + ResetCooldownHours - t
         ELSE None

\* Entity.can_be_reset
can_be_reset(e, t) == time_until_cooldown_expires(e, t) = None

\* Entity.create_for_repository: health 100, alive, no history row yet
create_for_repository(id, repository_id, entity_type) ==
    [id |-> id, repository_id |-> repository_id, entity_type |-> entity_type,
     health_score |-> MaxHealth, status |-> "alive", death_date |-> None,
     interaction_cooldown_until |-> None,
     metadata_json |-> [revival_count |-> 0],
     health_history |-> NoHistory]

\* Entity.update_metadata(revival_count=n)
update_metadata(e, revival_count) ==
    [e EXCEPT !.metadata_json = [@ EXCEPT !.revival_count = revival_count]]

\* the response of a call: which call, its numeric argument, whether it was
\* accepted, the failure reason, and the entity_died flag
Result(op, arg, ok, reason, died) ==
    [op |-> op, arg |-> arg, ok |-> ok, reason |-> reason, entity_died |-> died]

RequestIds == 1 .. MaxRequests

\* a create request that is not running
IdleTx == [pc |-> "idle", repository_id |-> 0, entity_type |-> "", rows |-> {}]

\* no create request has a transaction open
NoTx == [q \in RequestIds |-> IdleTx]

\* a push delivery that is not being handled
IdleDelivery == [pc |-> "idle", repository_id |-> 0, payload |-> <<>>, commits |-> <<>>, analyses |-> <<>>, entity |-> {}]

\* no push delivery is being handled
NoDelivery == [q \in RequestIds |-> IdleDelivery]

\* the cleanup thread between two scans (asyncio.sleep(60)): no iterator, an
\* empty stale_connections list
IdleCleanup == [pc |-> "sleeping", now |-> 0, used |-> 0, seen |-> {}, stale_connections |-> {}, websocket |-> 0, user_id |-> 0]

\* replace row e of the entities table by e2
Store(e, e2) == (entities \ {e}) \cup {e2}

\* ===================================== the Entity methods, called directly

EntityInit ==
    /\ now = 0
    /\ repositories = {}
    /\ entities = {create_for_repository(1, 1, "pet")}
    /\ tx = NoTx
    /\ result = Result("create_for_repository", 0, TRUE, "", FALSE)
    /\ users = {}
    /\ user_sessions = {}
    /\ active_connections = <<>>
    /\ connection_info = <<>>
    /\ cleanup = IdleCleanup
    /\ commit_analyses = {}
    /\ in_flight = NoDelivery

CallUpdateHealth ==
    \E e \in entities, new_health \in NewHealths :
        /\ e.health_history.count < MaxHistory
        /\ LET e2 == update_health(e, new_health, "manual_update", None, now)
           IN /\ entities' = Store(e, e2)
              /\ result' = Result("update_health", new_health, TRUE, "", JustDied(e, e2))
        /\ UNCHANGED <<now, repositories, tx, auth_vars, analysis_vars, ws_vars>>

CallApplyHealthDelta ==
    \E e \in entities, delta \in Deltas :
        /\ e.health_history.count < MaxHistory
        /\ LET e2 == apply_health_delta(e, delta, "commit_analysis", None, now)
           IN /\ entities' = Store(e, e2)
              /\ result' = Result("apply_health_delta", delta, TRUE, "", JustDied(e, e2))
        /\ UNCHANGED <<now, repositories, tx, auth_vars, analysis_vars, ws_vars>>

CallDecayHealth ==
    \E e \in entities, days \in DecayDays :
        /\ LET e2 == decay_health(e, days, now)
           IN /\ entities' = Store(e, e2)
              /\ e2 # e => e.health_history.count < MaxHistory
              /\ result' = Result("decay_health", days, TRUE, "", JustDied(e, e2))
        /\ UNCHANGED <<now, repositories, tx, auth_vars, analysis_vars, ws_vars>>

CallResetToFullHealth ==
    \E e \in entities :
        /\ e.health_history.count < MaxHistory
        /\ entities' = Store(e, reset_to_full_health(e, "manual_reset"))
        /\ result' = Result("reset_to_full_health", 0, TRUE, "", FALSE)
        /\ UNCHANGED <<now, repositories, tx, auth_vars, analysis_vars, ws_vars>>

EntityNext ==
    \/ CallUpdateHealth
    \/ CallApplyHealthDelta
    \/ CallDecayHealth
    \/ CallResetToFullHealth

SpecEntity == EntityInit /\ [][EntityNext]_vars

\* ============================================================ Repository

\* User.create_from_github: the row of a GitHub account that has signed in
create_user_from_github(id, login) == [id |-> id, username |-> login]

\* the accounts that have signed in
RegisteredUsers == {create_user_from_github(1, "alice")}

\* Repository.create_from_github: monitoring starts disabled
create_from_github(id, user_id, github_repo_id) ==
    [id |-> id, user_id |-> user_id, github_repo_id |-> github_repo_id,
     monitoring_active |-> FALSE, webhook_id |-> None,
     last_commit_sha |-> "", last_monitored_at |-> None]

\* Repository.update_last_monitored
update_last_monitored(r, t) == [r EXCEPT !.last_monitored_at = t]

\* Repository.enable_monitoring (with update_last_monitored)
enable_monitoring(r, t) ==
    update_last_monitored([r EXCEPT !.monitoring_active = TRUE], t)

\* Repository.disable_monitoring
disable_monitoring(r) == [r EXCEPT !.monitoring_active = FALSE]

\* repository.entity (relationship, uselist=False): the rows it can load
entity_of(r) == {e \in entities : e.repository_id = r.id}

GithubRepoIds == {1}

\* GitHubService.get_user_repositories: the ids GitHub lists for an account
GithubRepos(username) == IF username = "alice" THEN GithubRepoIds ELSE {}

\* ========================================================= EntityService

\* EntityService is written against Entity attributes that models/entity.py
\* does not define (custom_metadata, can_receive_health_update,
\* interaction_cooldown_until, last_interaction, birth_date). They follow the
\* specification's data model.
\* Entity.custom_metadata: the metadata dictionary
custom_metadata(e) == e.metadata_json

\* Entity.can_receive_health_update: no cooldown, or the cooldown has run out
can_receive_health_update(e, t) ==
    \/ e.interaction_cooldown_until = None
    \/ t >= e.interaction_cooldown_until

\* the primary key an INSERT gets: one no row of the table holds
FreshId(rows) ==
    CHOOSE i \in 1 .. Cardinality(rows) + 1 :
        /\ \A x \in rows : x.id # i
        /\ \A j \in 1 .. i - 1 : \E x \in rows : x.id = j

\* outcome of a service call: the entity as the call leaves it and the response
Outcome(e, res) == [entity |-> e, result |-> res]

\* EntityService.create_entity: the Entity row and its 'birth' history row
create_entity(id, repository_id, entity_type) ==
    LET config == ENTITY_TYPES[entity_type]
    IN [id |-> id, repository_id |-> repository_id, entity_type |-> entity_type,
        health_score |-> config.base_health, status |-> "alive",
        death_date |-> None, interaction_cooldown_until |-> None,
        metadata_json |-> [revival_count |-> 0],
        health_history |->
            Append_history(NoHistory,
                           HealthHistory(config.base_health, "birth", None))]

\* apply_commit_impact without the liveness check
apply_commit_impact_unguarded(e, health_impact, commit_analysis_id, cooldown_hours, t) ==
    IF ~can_receive_health_update(e, t)
    THEN Outcome(e, Result("apply_commit_impact", health_impact, FALSE,
                           "Entity is in cooldown period", FALSE))
    ELSE LET e2 == apply_health_delta(e, health_impact, "commit_analysis",
                                      commit_analysis_id, t)
         IN Outcome([e2 EXCEPT !.interaction_cooldown_until = t + cooldown_hours],
                    Result("apply_commit_impact", health_impact, TRUE, "",
                           JustDied(e, e2)))

\* apply_commit_impact without the cooldown check
apply_commit_impact_no_cooldown(e, health_impact, commit_analysis_id, cooldown_hours, t) ==
    IF ~is_alive(e)
    THEN Outcome(e, Result("apply_commit_impact", health_impact, FALSE,
                           "Entity is dead", FALSE))
    ELSE LET e2 == apply_health_delta(e, health_impact, "commit_analysis",
                                      commit_analysis_id, t)
         IN Outcome([e2 EXCEPT !.interaction_cooldown_until = t + cooldown_hours],
                    Result("apply_commit_impact", health_impact, TRUE, "",
                           JustDied(e, e2)))

\* EntityService.apply_commit_impact; cooldown_hours is the random.randint draw
apply_commit_impact(e, health_impact, commit_analysis_id, cooldown_hours, t) ==
    IF ~is_alive(e)
    THEN Outcome(e, Result("apply_commit_impact", health_impact, FALSE, "Entity is dead", FALSE))
    ELSE IF ~can_receive_health_update(e, t)
    THEN Outcome(e, Result("apply_commit_impact", health_impact, FALSE,
                           "Entity is in cooldown period", FALSE))
    ELSE LET e2 == apply_health_delta(e, health_impact, "commit_analysis",
                                      commit_analysis_id, t)
         IN Outcome([e2 EXCEPT !.interaction_cooldown_until = t + cooldown_hours],
                    Result("apply_commit_impact", health_impact, TRUE, "", JustDied(e, e2)))

\* days_inactive of apply_daily_decay: 0 without a last_monitored_at, else the
\* whole days elapsed since then
DaysInactive(r, elapsed_days) ==
    IF r.last_monitored_at = None THEN 0 ELSE Max(0, elapsed_days)

\* EntityService.apply_daily_decay
apply_daily_decay(e, days_inactive, t) ==
    IF ~is_alive(e)
    THEN Outcome(e, Result("apply_daily_decay", days_inactive, FALSE, "Entity is dead", FALSE))
    ELSE IF days_inactive = 0
    THEN Outcome(e, Result("apply_daily_decay", days_inactive, TRUE, "No inactivity", FALSE))
    ELSE LET e2 == decay_health(e, days_inactive, t)
         IN Outcome(e2, Result("apply_daily_decay", days_inactive, TRUE, "", JustDied(e, e2)))

\* revive_entity that forgets to clear the death timestamp
revive_entity_keeps_death_date(e, initial_health, t) ==
    IF is_alive(e)
    THEN Outcome(e, Result("revive_entity", initial_health, FALSE,
                           "Entity is already alive", FALSE))
    ELSE LET e1 == [e EXCEPT !.status = "alive", !.interaction_cooldown_until = None]
             e2 == update_health(e1, initial_health, "revival", None, t)
         IN Outcome(update_metadata(e2, custom_metadata(e2).revival_count + 1),
                    Result("revive_entity", initial_health, TRUE, "", FALSE))

\* EntityService.revive_entity
revive_entity(e, initial_health, t) ==
    IF is_alive(e)
    THEN Outcome(e, Result("revive_entity", initial_health, FALSE, "Entity is already alive", FALSE))
    ELSE LET e1 == [e EXCEPT !.status = "alive", !.death_date = None,
                             !.interaction_cooldown_until = None]
             e2 == update_health(e1, initial_health, "revival", None, t)
         IN Outcome(update_metadata(e2, custom_metadata(e2).revival_count + 1),
                    Result("revive_entity", initial_health, TRUE, "", FALSE))

\* ================================================================= routes

\* POST /entities/{id}/health
update_entity_health(e, health_change, t) ==
    IF ~is_alive(e)
    THEN Outcome(e, Result("update_entity_health", health_change, FALSE,
                           "Cannot update health of dead entity", FALSE))
    ELSE IF ~(-ManualBound <= health_change /\ health_change <= ManualBound)
    THEN Outcome(e, Result("update_entity_health", health_change, FALSE,
                           "Health change must be between -50 and +50", FALSE))
    ELSE LET e2 == apply_health_delta(e, health_change, "manual", None, t)
         IN Outcome(e2, Result("update_entity_health", health_change, TRUE, "", JustDied(e, e2)))

\* POST /entities/{id}/revive
revive_route(e, initial_health, t) ==
    IF ~(ReviveMin <= initial_health /\ initial_health <= ReviveMax)
    THEN Outcome(e, Result("revive_entity", initial_health, FALSE, "422", FALSE))
    ELSE IF is_alive(e)
    THEN Outcome(e, Result("revive_entity", initial_health, FALSE, "Entity is already alive", FALSE))
    ELSE revive_entity(e, initial_health, t)

\* a call that wrote a history row needs room under the bound
Room(e, out) ==
    out.entity.health_history # e.health_history => e.health_history.count < MaxHistory

Init ==
    /\ now = 0
    /\ repositories = {}
    /\ entities = {}
    /\ tx = NoTx
    /\ result = Result("init", 0, TRUE, "", FALSE)
    /\ users = RegisteredUsers
    /\ user_sessions = {}
    /\ active_connections = <<>>
    /\ connection_info = <<>>
    /\ cleanup = IdleCleanup
    /\ commit_analyses = {}
    /\ in_flight = NoDelivery

\* GET /repositories/github
SyncRepositories ==
    \E current_user \in users, github_ok \in BOOLEAN :
      \E gid \in GithubRepos(current_user.username) :
        /\ IF ~github_ok
           THEN /\ result' = Result("get_github_repositories", 0, FALSE, "400", FALSE)
                /\ UNCHANGED repositories
           ELSE /\ result' = Result("get_github_repositories", 0, TRUE, "", FALSE)
                /\ IF \E r \in repositories :
                         r.user_id = current_user.id /\ r.github_repo_id = gid
                   THEN UNCHANGED repositories
                   ELSE repositories' = repositories \cup
                          {create_from_github(FreshId(repositories),
                                              current_user.id, gid)}
        /\ UNCHANGED <<now, entities, tx, auth_vars, analysis_vars, ws_vars>>

\* the ids a request can name: those of the rows and one that no row has
NamedIds(rows) == {x.id : x \in rows} \cup {FreshId(rows)}

\* the repository lookup without the owner filter
owned_repository_any(current_user, repository_id) ==
    {r \in repositories : r.id = repository_id}

\* db.query(Repository).filter(Repository.id == repository_id,
\*                             Repository.user_id == current_user.id)
owned_repository(current_user, repository_id) ==
    {r \in repositories : r.id = repository_id /\ r.user_id = current_user.id}

\* db.query(Entity).join(Repository).filter(Entity.id == entity_id,
\*                                          Repository.user_id == current_user.id)
owned_entity(current_user, entity_id) ==
    {e \in entities : /\ e.id = entity_id
                      /\ \E r \in repositories : /\ r.id = e.repository_id
                                                 /\ r.user_id = current_user.id}

\* HTTPException(status_code=404): nothing is written and no row is returned;
\* the response is recorded with the id the request named
NotFound(op, detail, id) == Result(op, [id |-> id], FALSE, detail, FALSE)

\* POST /repositories/{id}/entity, run without interruption
CreateEntityAs(current_user, repository_id, entity_type) ==
        LET found == owned_repository(current_user, repository_id)
        IN /\ IF found = {}
              THEN /\ result' = NotFound("create_entity_for_repository",
                                         "Repository not found", repository_id)
                   /\ UNCHANGED entities
              ELSE LET r == CHOOSE x \in found : TRUE
                   IN IF entity_of(r) # {}
                      THEN /\ result' = Result("create_entity_for_repository", 0, FALSE,
                                    "Entity already exists for this repository", FALSE)
                           /\ UNCHANGED entities
                      ELSE /\ entities' = entities \cup
                                 {create_entity(FreshId(entities), r.id, entity_type)}
                           /\ result' = Result("create_entity_for_repository", 0, TRUE,
                                               "", FALSE)
           /\ UNCHANGED <<now, repositories, tx, auth_vars, analysis_vars, ws_vars>>

CreateEntity ==
    \E current_user \in users, repository_id \in NamedIds(repositories),
       entity_type \in EntityTypes :
        CreateEntityAs(current_user, repository_id, entity_type)

\* POST /repositories/{id}/monitoring/enable
EnableMonitoringAs(current_user, repository_id, enable_webhook, github_ok) ==
        LET found == owned_repository(current_user, repository_id)
        IN /\ IF found = {}
              THEN /\ result' = NotFound("enable_repository_monitoring",
                                         "Repository not found", repository_id)
                   /\ UNCHANGED repositories
              ELSE LET r == CHOOSE x \in found : TRUE
                   IN IF entity_of(r) = {}
                      THEN /\ result' = Result("enable_repository_monitoring", 0, FALSE,
                                "Repository must have an entity before enabling monitoring",
                                FALSE)
                           /\ UNCHANGED repositories
                      ELSE /\ result' = Result("enable_repository_monitoring", 0, TRUE,
                                               "", FALSE)
                           /\ repositories' = (repositories \ {r}) \cup
                                {[enable_monitoring(r, now) EXCEPT !.webhook_id =
                                     IF enable_webhook /\ github_ok THEN 1 ELSE @]}
           /\ UNCHANGED <<now, entities, tx, auth_vars, analysis_vars, ws_vars>>

EnableMonitoring ==
    \E current_user \in users, repository_id \in NamedIds(repositories),
       enable_webhook \in BOOLEAN, github_ok \in BOOLEAN :
        EnableMonitoringAs(current_user, repository_id, enable_webhook, github_ok)

\* POST /repositories/{id}/monitoring/disable
DisableMonitoringAs(current_user, repository_id, github_ok) ==
        LET found == owned_repository(current_user, repository_id)
        IN /\ IF found = {}
              THEN /\ result' = NotFound("disable_repository_monitoring",
                                         "Repository not found", repository_id)
                   /\ UNCHANGED repositories
              ELSE LET r == CHOOSE x \in found : TRUE
                   IN /\ repositories' = (repositories \ {r}) \cup
                           {[disable_monitoring(r) EXCEPT !.webhook_id =
                                IF r.webhook_id # None /\ github_ok THEN None ELSE @]}
                      /\ result' = Result("disable_repository_monitoring", 0, TRUE,
                                          "", FALSE)
           /\ UNCHANGED <<now, entities, tx, auth_vars, analysis_vars, ws_vars>>

DisableMonitoring ==
    \E current_user \in users, repository_id \in NamedIds(repositories),
       github_ok \in BOOLEAN :
        DisableMonitoringAs(current_user, repository_id, github_ok)

\* DELETE /entities/{id}
DeleteEntityAs(current_user, entity_id) ==
    LET found == owned_entity(current_user, entity_id)
    IN /\ IF found = {}
          THEN /\ result' = NotFound("delete_entity", "Entity not found", entity_id)
               /\ UNCHANGED entities
          ELSE /\ entities' = entities \ found
               /\ result' = Result("delete_entity", 0, TRUE, "", FALSE)
       /\ UNCHANGED <<now, repositories, tx, auth_vars, analysis_vars, ws_vars>>

DeleteEntity ==
    \E current_user \in users, entity_id \in NamedIds(entities) :
        DeleteEntityAs(current_user, entity_id)

\* DELETE /repositories/{id}: the entity and the analyses go with it (cascade)
DeleteRepositoryAs(current_user, repository_id) ==
    LET found == owned_repository(current_user, repository_id)
    IN /\ IF found = {}
          THEN /\ result' = NotFound("delete_repository", "Repository not found", repository_id)
               /\ UNCHANGED <<repositories, entities, commit_analyses>>
          ELSE LET r == CHOOSE x \in found : TRUE
               IN /\ repositories' = repositories \ {r}
                  /\ entities' = entities \ entity_of(r)
                  /\ commit_analyses' =
                        {a \in commit_analyses : a.repository_id # r.id}
                  /\ result' = Result("delete_repository", 0, TRUE, "", FALSE)
       /\ UNCHANGED <<now, tx, in_flight, auth_vars, ws_vars>>

DeleteRepository ==
    \E current_user \in users, repository_id \in NamedIds(repositories) :
        DeleteRepositoryAs(current_user, repository_id)

\* one analysis of a push delivery applied to the entity of a monitored
\* repository (WebhookService._handle_push_event -> apply_commit_impact)
CommitImpact ==
    \E r \in repositories, health_impact \in HealthImpacts :
        /\ r.monitoring_active
        /\ \E e \in entity_of(r) :
             \E cooldown_hours \in 1 .. ENTITY_TYPES[e.entity_type].max_cooldown_hours :
                LET out == apply_commit_impact(e, health_impact, 1, cooldown_hours, now)
                IN /\ Room(e, out)
                   /\ entities' = Store(e, out.entity)
                   /\ result' = out.result
        /\ UNCHANGED <<now, repositories, tx, auth_vars, analysis_vars, ws_vars>>

\* POST /entities/{id}/decay
DailyDecayAs(current_user, entity_id, elapsed_days) ==
        LET found == owned_entity(current_user, entity_id)
        IN IF found = {}
           THEN /\ result' = NotFound("apply_daily_decay", "Entity not found", entity_id)
                /\ UNCHANGED <<now, repositories, entities, tx, auth_vars, analysis_vars, ws_vars>>
           ELSE \E e \in found :
                  \E r \in {x \in repositories : x.id = e.repository_id} :
                    LET out == apply_daily_decay(e, DaysInactive(r, elapsed_days), now)
                    IN /\ Room(e, out)
                       /\ entities' = Store(e, out.entity)
                       /\ result' = out.result
                       /\ UNCHANGED <<now, repositories, tx, auth_vars, analysis_vars, ws_vars>>

DailyDecay ==
    \E current_user \in users, entity_id \in NamedIds(entities),
       elapsed_days \in ElapsedDays :
        DailyDecayAs(current_user, entity_id, elapsed_days)

\* POST /entities/{id}/health
ManualHealthAs(current_user, entity_id, health_change) ==
        LET found == owned_entity(current_user, entity_id)
        IN IF found = {}
           THEN /\ result' = NotFound("update_entity_health", "Entity not found", entity_id)
                /\ UNCHANGED <<now, repositories, entities, tx, auth_vars, analysis_vars, ws_vars>>
           ELSE \E e \in found :
                  LET out == update_entity_health(e, health_change, now)
                  IN /\ Room(e, out)
                     /\ entities' = Store(e, out.entity)
                     /\ result' = out.result
                     /\ UNCHANGED <<now, repositories, tx, auth_vars, analysis_vars, ws_vars>>

ManualHealth ==
    \E current_user \in users, entity_id \in NamedIds(entities),
       health_change \in HealthChanges :
        ManualHealthAs(current_user, entity_id, health_change)

\* POST /entities/{id}/revive
ReviveAs(current_user, entity_id, initial_health) ==
        LET found == owned_entity(current_user, entity_id)
        IN IF ~(ReviveMin <= initial_health /\ initial_health <= ReviveMax)
           THEN /\ result' = Result("revive_entity", initial_health, FALSE, "422", FALSE)
                /\ UNCHANGED <<now, repositories, entities, tx, auth_vars, analysis_vars, ws_vars>>
           ELSE IF found = {}
           THEN /\ result' = NotFound("revive_entity", "Entity not found", entity_id)
                /\ UNCHANGED <<now, repositories, entities, tx, auth_vars, analysis_vars, ws_vars>>
           ELSE \E e \in found :
                  LET out == revive_route(e, initial_health, now)
                  IN /\ Room(e, out)
                     /\ entities' = Store(e, out.entity)
                     /\ result' = out.result
                     /\ UNCHANGED <<now, repositories, tx, auth_vars, analysis_vars, ws_vars>>

Revive ==
    \E current_user \in users, entity_id \in NamedIds(entities),
       initial_health \in InitialHealths :
        ReviveAs(current_user, entity_id, initial_health)

\* an hour passes
Tick ==
    /\ now < MaxNow
    /\ now' = now + 1
    /\ result' = Result("tick", 0, TRUE, "", FALSE)
    /\ UNCHANGED <<repositories, entities, tx, auth_vars, analysis_vars, ws_vars>>

Next ==
    \/ SyncRepositories
    \/ CreateEntity
    \/ EnableMonitoring
    \/ DisableMonitoring
    \/ DeleteEntity
    \/ DeleteRepository
    \/ CommitImpact
    \/ DailyDecay
    \/ ManualHealth
    \/ Revive
    \/ Tick

Spec == Init /\ [][Next]_vars

\* ======================================================= analysis layer

\* integer part of x / d, rounded towards zero as Python's int() does
Trunc(x, d) == IF x >= 0 THEN x \div d ELSE -((-x) \div d)

\* max(0, min(100, score))
Clamp100(score) == Max(0, Min(100, score))

\* the health impact without its final clamp
ClampImpact_off(impact) == impact

\* max(-20, min(20, impact))
ClampImpact(impact) == Max(MinImpact, Min(MaxImpact, impact))

\* AnalysisService.HEALTH_IMPACT_RANGES, picked by quality band
ImpactRange(quality_score) ==
    IF quality_score >= 90 THEN <<15, 20>>
    ELSE IF quality_score >= 70 THEN <<5, 15>>
    ELSE IF quality_score >= 50 THEN <<-2, 5>>
    ELSE IF quality_score >= 30 THEN <<-10, -2>>
    ELSE <<-20, -10>>

\* AnalysisService._calculate_health_impact: base_impact is the middle of the
\* band, size_factor is total_changes / 100 kept in 0.5 .. 1.5; the product is
\* computed here as (lo + hi) * (100 * size_factor) / 200
calculate_health_impact(quality_score, total_changes) ==
    LET impact_range == ImpactRange(quality_score)
        size_factor == Min(MaxSizeFactor, Max(MinSizeFactor, total_changes))
        final_impact == Trunc((impact_range[1] + impact_range[2]) * size_factor, 200)
    IN ClampImpact(final_impact)

\* CodeAnalysisAgent._fallback_analysis: its overall_quality_score
fallback_analysis(total_changes, has_test_files) ==
    LET sized == IF 20 <= total_changes /\ total_changes <= 200 THEN DefaultQuality + 10
                 ELSE IF total_changes > 500 THEN DefaultQuality - 15
                 ELSE DefaultQuality
        base_score == IF has_test_files THEN sized + 10 ELSE sized
    IN Max(30, Min(80, base_score))

\* CodeAnalysisAgent._calculate_fallback_health_impact
calculate_fallback_health_impact(quality_score) ==
    IF quality_score >= 90 THEN 15
    ELSE IF quality_score >= 70 THEN 8
    ELSE IF quality_score >= 50 THEN 2
    ELSE IF quality_score >= 30 THEN -5
    ELSE -12

\* CodeAnalysisAgent.analyze_commit_quality. The call to the model gives a
\* result ("ok", validated to 0..100) or fails, and then the agent's own
\* fallback analysis is returned; "raise" is an exception that leaves the
\* method (the fallback analysis itself failing).
analyze_commit_quality(c) ==
    IF c.quality_call = "raise" THEN [raised |-> TRUE, overall_quality_score |-> 0]
    ELSE IF c.quality_call = "ok"
    THEN [raised |-> FALSE, overall_quality_score |-> Clamp100(c.ai_quality)]
    ELSE [raised |-> FALSE,
          overall_quality_score |-> fallback_analysis(c.total_changes, c.has_test_files)]

\* CodeAnalysisAgent.suggest_health_impact. The prompt is built outside the
\* try block with json.dumps over the commit metrics, which hold commit_date
\* as a datetime when the commit has a date: that raises. Otherwise the call
\* to the model gives an impact, clamped, or fails and the fallback constants
\* are used.
suggest_health_impact(c, quality_score) ==
    IF c.has_commit_date THEN [raised |-> TRUE, health_impact |-> 0]
    ELSE IF c.impact_call = "ok"
    THEN [raised |-> FALSE, health_impact |-> ClampImpact(c.ai_impact)]
    ELSE [raised |-> FALSE,
          health_impact |-> calculate_fallback_health_impact(quality_score)]

\* the CommitAnalysis row as AnalysisService.analyze_commit builds it
CommitAnalysis(id, repository_id, commit_sha, quality_score, health_impact, ai_analysis, analysis_method) ==
    [id |-> id, repository_id |-> repository_id, commit_sha |-> commit_sha,
     quality_score |-> quality_score, health_impact |-> health_impact,
     ai_analysis |-> ai_analysis, analysis_method |-> analysis_method]

\* AnalysisService.analyze_commit: the row it persists. c holds the commit's
\* metrics and what the environment answers: ai_enabled (the agent was
\* constructed), the outcome of the agent's two calls, and basic_quality, the
\* overall score of the heuristic analysis.
analyze_commit(id, repository_id, c) ==
    LET ai == analyze_commit_quality(c)
        hi == suggest_health_impact(c, ai.overall_quality_score)
        \* 'ai_analysis' in locals(): the first call returned
        ai_analysis == c.ai_enabled /\ ~ai.raised
        basic == c.ai_enabled => (ai.raised \/ hi.raised)
        quality_score == IF basic THEN c.basic_quality ELSE ai.overall_quality_score
        health_impact == IF basic
                         THEN calculate_health_impact(c.basic_quality, c.total_changes)
                         ELSE hi.health_impact
    IN CommitAnalysis(id, repository_id, c.sha, quality_score, health_impact,
                      ai_analysis,
                      IF ai_analysis THEN "ai_powered" ELSE "basic")

\* ========================================================= push pipeline

\* a commit of a push payload: id, number of parents, author.username and the
\* timestamp, an ISO-8601 text with a UTC offset (local hour, offset hours)
Commit(id, parents, username, local, offset) ==
    [id |-> id, parents |-> parents,
     author |-> [username |-> username],
     timestamp |-> [local |-> local, offset |-> offset]]

\* the commits lists of the deliveries: the owner's commit "a1", a merge
\* "b2", another author's "c3", a parentless "d4", and "e5", written at 08:00
\* five hours west of UTC, after all the others
Payloads ==
    LET own   == Commit("a1", 1, "alice", 10, 0)
        merge == Commit("b2", 2, "alice", 12, 0)
        other == Commit("c3", 1, "bob", 11, 0)
        root  == Commit("d4", 0, "alice", 9, 0)
        west  == Commit("e5", 1, "bob", 8, -5)
    IN {<<>>, <<own>>, <<merge>>, <<other, own>>, <<root, own>>, <<west, own>>}

\* what the analysis of a delivery's commits meets: the heuristic engine
\* alone, on an excellent commit of 100 changed lines
PushAnalysisInputs ==
    {[sha |-> "", ai_enabled |-> FALSE, quality_call |-> "failed", ai_quality |-> 0,
      impact_call |-> "failed", ai_impact |-> 0, has_commit_date |-> TRUE,
      total_changes |-> 100, has_test_files |-> FALSE, basic_quality |-> 95]}

\* the elements of a sequence
Range(seq) == {seq[i] : i \in 1 .. Len(seq)}

\* x.get('timestamp', ''): the texts compare by their local part
TimestampKey(commit) == commit.timestamp.local

\* the moment a timestamp denotes, in hours UTC
Instant(commit) == commit.timestamp.local - commit.timestamp.offset

\* the filter that keeps merge commits
IsRelevant_keeps_merges(commit, username) == commit.author.username = username

\* a commit passes the filter of _handle_push_event: not a merge commit, and
\* written by the repository owner
IsRelevant(commit, username) ==
    /\ ~(commit.parents > 1)
    /\ commit.author.username = username

\* filtered_commits
filtered_commits(commits, username) ==
    SelectSeq(commits, LAMBDA commit : IsRelevant(commit, username))

\* max(commits, key=lambda x: x.get('timestamp', '')): the first commit whose
\* key no other exceeds
latest_commit(commits) ==
    LET i == CHOOSE k \in 1 .. Len(commits) :
                /\ \A j \in 1 .. Len(commits) :
                      TimestampKey(commits[j]) <= TimestampKey(commits[k])
                /\ \A j \in 1 .. k - 1 :
                      TimestampKey(commits[j]) < TimestampKey(commits[k])
    IN commits[i]

\* AnalysisService.batch_analyze_commits: one analyze_commit per commit, each
\* row committed as it is made; the rows in the order of the commits
RECURSIVE batch_analyze_commits(_, _, _, _)
batch_analyze_commits(rows, repository_id, commits, c) ==
    IF commits = <<>> THEN <<>>
    ELSE LET row == analyze_commit(FreshId(rows), repository_id,
                                   [c EXCEPT !.sha = Head(commits).id])
         IN <<row>> \o batch_analyze_commits(rows \cup {row}, repository_id,
                                             Tail(commits), c)

\* the loop over the analyses: apply_commit_impact on each in turn
RECURSIVE apply_analyses(_, _, _, _)
apply_analyses(e, analyses, cooldown_hours, t) ==
    IF analyses = <<>> THEN e
    ELSE apply_analyses(
             apply_commit_impact(e, Head(analyses).health_impact, Head(analyses).id,
                                 cooldown_hours, t).entity,
             Tail(analyses), cooldown_hours, t)

\* the handler without its monitoring check
monitoring_not_active_off(r) == FALSE

\* if not repository.monitoring_active: the delivery is refused
monitoring_not_active(r) == ~r.monitoring_active

\* what a delivery leaves: the three tables and the response
PushOutcome(repos, ents, rows, ok, message, arg) ==
    [repositories |-> repos, entities |-> ents, commit_analyses |-> rows,
     result |-> Result("push", arg, ok, message, FALSE)]

\* WebhookService._handle_push_event from the point where the repository row
\* r has been found. failed holds the ids of the commits whose details
\* request or analysis raised.
handle_push_event(r, commits, c, failed, token_ok, cooldown_hours, t) ==
    LET arg == [github_repo_id |-> r.github_repo_id, commits |-> commits]
        unchanged(ok, message) ==
            PushOutcome(repositories, entities, commit_analyses, ok, message, arg)
        owners == {u \in users : u.id = r.user_id}
    IN IF monitoring_not_active(r) THEN unchanged(FALSE, "Monitoring not active")
       ELSE IF owners = {} THEN unchanged(FALSE, "Repository owner not found")
       ELSE IF ~token_ok THEN unchanged(FALSE, "Failed to decrypt access token")
       ELSE IF commits = <<>> THEN unchanged(TRUE, "No commits to process")
       ELSE LET user == CHOOSE u \in owners : TRUE
                filtered == filtered_commits(commits, user.username)
                detailed == SelectSeq(filtered, LAMBDA commit : commit.id \notin failed)
                analyses == batch_analyze_commits(commit_analyses, r.id, detailed, c)
                rows == commit_analyses \cup Range(analyses)
            IN IF filtered = <<>>
               THEN unchanged(TRUE, "No relevant commits to process")
               ELSE IF entity_of(r) = {}
               THEN PushOutcome(repositories, entities, rows, FALSE,
                                "No entity found for repository", arg)
               ELSE LET e == CHOOSE x \in entity_of(r) : TRUE
                        e2 == apply_analyses(e, analyses, cooldown_hours, t)
                        r2 == [update_last_monitored(r, t) EXCEPT
                                  !.last_commit_sha = latest_commit(commits).id]
                    IN PushOutcome((repositories \ {r}) \cup {r2}, Store(e, e2),
                                   rows, TRUE, "Processed", arg)

\* random.randint(1, config["max_cooldown_hours"]) draws up to the maximum of
\* the entity's type
MaxCooldownHours(r) ==
    IF entity_of(r) = {} THEN 1
    ELSE ENTITY_TYPES[(CHOOSE e \in entity_of(r) : TRUE).entity_type].max_cooldown_hours

\* POST /webhook/github with a push event whose commits list is one of
\* payloads and whose commits are analysed as one of inputs says
PushEventWith(payloads, inputs) ==
    \E gid \in GithubRepoIds, commits \in payloads, c \in inputs,
       token_ok \in BOOLEAN :
      \E failed \in {{}} \cup {{commits[i].id} : i \in 1 .. Len(commits)} :
        LET found == {r \in repositories : r.github_repo_id = gid}
        IN IF found = {}
           THEN /\ result' = Result("push", [github_repo_id |-> gid, commits |-> commits],
                                    FALSE, "Repository not found in database", FALSE)
                /\ UNCHANGED <<now, repositories, entities, tx, auth_vars, analysis_vars, ws_vars>>
           ELSE \E r \in found :
                \E cooldown_hours \in 1 .. MaxCooldownHours(r) :
                   LET out == handle_push_event(r, commits, c, failed, token_ok,
                                                cooldown_hours, now)
                   IN \* a delivery refused before its commits are read draws
                      \* nothing further
                      /\ (~r.monitoring_active \/ ~token_ok)
                            => (failed = {} /\ cooldown_hours = 1)
                      /\ Cardinality(out.commit_analyses) <= MaxAnalyses
                      /\ \A e \in out.entities : e.health_history.count <= MaxHistory
                      /\ repositories' = out.repositories
                      /\ entities' = out.entities
                      /\ commit_analyses' = out.commit_analyses
                      /\ result' = out.result
                      /\ UNCHANGED <<now, tx, in_flight, auth_vars, ws_vars>>

\* POST /webhook/github with a push event
PushEvent == PushEventWith(Payloads, PushAnalysisInputs)

\* alice has synced her repository and given it a creature
PushInit ==
    /\ now = 0
    /\ users = RegisteredUsers
    /\ user_sessions = {}
    /\ active_connections = <<>>
    /\ connection_info = <<>>
    /\ cleanup = IdleCleanup
    /\ repositories = {create_from_github(1, 1, 1)}
    /\ entities = {create_entity(1, 1, "creature")}
    /\ commit_analyses = {}
    /\ in_flight = NoDelivery
    /\ tx = NoTx
    /\ result = Result("create_entity_for_repository", 0, TRUE, "", FALSE)

PushNext ==
    \/ EnableMonitoring
    \/ DisableMonitoring
    \/ DeleteEntity
    \/ PushEvent
    \/ Tick

SpecPush == PushInit /\ [][PushNext]_vars

\* ---------------------------------------------------------------------------
\* the life of an entity: the requests that write its health and status
\* ---------------------------------------------------------------------------

\* alice has synced her repository
LifeInit ==
    /\ now = 0
    /\ users = RegisteredUsers
    /\ user_sessions = {}
    /\ active_connections = <<>>
    /\ connection_info = <<>>
    /\ cleanup = IdleCleanup
    /\ repositories = {create_from_github(1, 1, 1)}
    /\ entities = {}
    /\ commit_analyses = {}
    /\ in_flight = NoDelivery
    /\ tx = NoTx
    /\ result = Result("get_github_repositories", 0, TRUE, "", FALSE)

LifeNext ==
    \/ CreateEntity
    \/ EnableMonitoring
    \/ CommitImpact
    \/ DailyDecay
    \/ ManualHealth
    \/ Revive
    \/ Tick

SpecLife == LifeInit /\ [][LifeNext]_vars

\* ---------------------------------------------------------------------------
\* deliveries of several commits
\* ---------------------------------------------------------------------------

\* the owner's commits "d4" and "a1" in one delivery, or "a1" alone; the
\* heuristic quality of the commits is low or high
DeliveryPayloads == {<<Commit("d4", 0, "alice", 9, 0), Commit("a1", 1, "alice", 10, 0)>>, <<Commit("a1", 1, "alice", 10, 0)>>}
DeliveryAnalysisInputs == {[c EXCEPT !.basic_quality = q] : c \in PushAnalysisInputs, q \in {20, 95}}
DeliveryHealthChanges == {-20}

DeliveryPush == PushEventWith(DeliveryPayloads, DeliveryAnalysisInputs)

\* alice's repository is monitored and has a creature
DeliveryInit ==
    /\ now = 0
    /\ users = RegisteredUsers
    /\ user_sessions = {}
    /\ active_connections = <<>>
    /\ connection_info = <<>>
    /\ cleanup = IdleCleanup
    /\ repositories = {enable_monitoring(create_from_github(1, 1, 1), 0)}
    /\ entities = {create_entity(1, 1, "creature")}
    /\ commit_analyses = {}
    /\ in_flight = NoDelivery
    /\ tx = NoTx
    /\ result = Result("enable_repository_monitoring", 0, TRUE, "", FALSE)

DeliveryManualHealth ==
    \E current_user \in users, e \in entities, health_change \in DeliveryHealthChanges :
        ManualHealthAs(current_user, e.id, health_change)

DeliveryNext ==
    \/ DeliveryPush
    \/ DeliveryManualHealth
    \/ Tick

SpecDelivery == DeliveryInit /\ [][DeliveryNext]_vars

\* ====================================================== webhook endpoint

\* hmac.new(secret, payload, hashlib.sha256).hexdigest(): a digest is
\* determined by the key and the message, and differs when either differs
HmacSha256(secret, payload) == [key |-> secret, msg |-> payload]

\* an environment variable or a request header: absent, or present with a text
Absent(empty) == [present |-> FALSE, text |-> empty]
Given(text) == [present |-> TRUE, text |-> text]

\* os.getenv("WEBHOOK_SECRET") at the time of the request
Secrets == {Absent(""), Given(""), Given("s1")}

\* request bodies: a well-formed push payload for GitHub repository 1 with the
\* owner's commit, a push payload without its pusher field, and a body that
\* is not JSON
Bodies ==
    {[raw |-> "push", json |-> TRUE, well_formed |-> TRUE, github_repo_id |-> 1,
      commits |-> <<Commit("a1", 1, "alice", 10, 0)>>],
     [raw |-> "push-no-pusher", json |-> TRUE, well_formed |-> FALSE,
      github_repo_id |-> 1, commits |-> <<Commit("a1", 1, "alice", 10, 0)>>],
     [raw |-> "not-json", json |-> FALSE, well_formed |-> FALSE,
      github_repo_id |-> 1, commits |-> <<>>]}

\* X-Hub-Signature-256 values sent with a body: none, an empty one, the
\* signature under the secret "s1", one under another secret, one of another
\* body, and the right digest behind the wrong prefix
SignatureHeaders(body) ==
    {Absent(<<>>), Given(<<>>),
     Given(<<"sha256=", HmacSha256("s1", body.raw)>>),
     Given(<<"sha256=", HmacSha256("s2", body.raw)>>),
     Given(<<"sha256=", HmacSha256("s1", "other")>>),
     Given(<<"sha1=", HmacSha256("s1", body.raw)>>)}

\* X-GitHub-Event values
EventTypes == {"push", "ping"}

\* the truth value Python gives an Optional[str]: None and "" are false
Truthy(x, empty) == x.present /\ x.text # empty

\* verification that accepts every signature
verify_github_signature_off(payload, signature, secret) == TRUE

\* WebhookService.verify_github_signature
verify_github_signature(payload, signature, secret) ==
    IF ~(Len(signature) >= 1 /\ signature[1] = "sha256=") THEN FALSE
    ELSE signature = <<"sha256=", HmacSha256(secret, payload)>>

\* WebhookService.validate_webhook_payload
validate_webhook_payload(body, event_type) ==
    event_type = "push" => body.well_formed

\* the response of the webhook route: the request it answers, the HTTP status
\* and the result of the event processing
WebhookResult(secret, signature, body, event_type, status_code, ok, message) ==
    Result("webhook",
           [secret |-> secret, signature |-> signature, body |-> body.raw,
            event_type |-> event_type, status_code |-> status_code],
           ok, message, FALSE)

\* POST /webhook/github: signature check, JSON parsing, payload validation,
\* then the event processing
WebhookDelivery ==
    \E secret \in Secrets, body \in Bodies, event_type \in EventTypes,
       c \in PushAnalysisInputs :
      \E signature \in SignatureHeaders(body) :
        LET answer(status_code, ok, message) ==
                WebhookResult(secret, signature, body, event_type, status_code,
                              ok, message)
            found == {r \in repositories : r.github_repo_id = body.github_repo_id}
            rejected(status_code, message) ==
                /\ result' = answer(status_code, FALSE, message)
                /\ UNCHANGED <<now, repositories, entities, tx, auth_vars, analysis_vars, ws_vars>>
        IN IF /\ Truthy(secret, "") /\ Truthy(signature, <<>>)
              /\ ~verify_github_signature(body.raw, signature.text, secret.text)
           THEN rejected(403, "Invalid webhook signature")
           ELSE IF ~body.json THEN rejected(400, "Invalid JSON payload")
           ELSE IF ~validate_webhook_payload(body, event_type)
           THEN rejected(400, "Invalid payload")
           ELSE IF event_type = "ping"
           THEN /\ result' = answer(200, TRUE, "Webhook ping received")
                /\ UNCHANGED <<now, repositories, entities, tx, auth_vars, analysis_vars, ws_vars>>
           ELSE IF found = {}
           THEN /\ result' = answer(200, FALSE, "Repository not found in database")
                /\ UNCHANGED <<now, repositories, entities, tx, auth_vars, analysis_vars, ws_vars>>
           ELSE \E r \in found :
                \E cooldown_hours \in 1 .. MaxCooldownHours(r) :
                   LET out == handle_push_event(r, body.commits, c, {}, TRUE,
                                                cooldown_hours, now)
                   IN /\ ~r.monitoring_active => cooldown_hours = 1
                      /\ Cardinality(out.commit_analyses) <= MaxAnalyses
                      /\ \A e \in out.entities : e.health_history.count <= MaxHistory
                      /\ repositories' = out.repositories
                      /\ entities' = out.entities
                      /\ commit_analyses' = out.commit_analyses
                      /\ result' = answer(200, out.result.ok, out.result.reason)
                      /\ UNCHANGED <<now, tx, in_flight, auth_vars, ws_vars>>

WebhookNext ==
    \/ EnableMonitoring
    \/ WebhookDelivery

SpecWebhook == PushInit /\ [][WebhookNext]_vars

\* ========================================================= authentication

\* a JWT: its claims, and whether its signature is the server's
Token(type, sub, exp, jti, signed) ==
    [type |-> type, sub |-> sub, exp |-> exp, jti |-> jti, signed |-> signed]

\* AuthService.create_access_token
create_access_token(user_id, t) ==
    Token("access", user_id, t + AccessTokenExpireHours, 0, TRUE)

\* AuthService.create_refresh_token; jti is the secrets.token_urlsafe draw
create_refresh_token(user_id, jti, t) ==
    Token("refresh", user_id, t + RefreshTokenExpireHours, jti, TRUE)

\* AuthService.verify_token: signature, expiry and type
verify_token(token, token_type, t) ==
    /\ token.signed
    /\ t < token.exp
    /\ token.type = token_type

\* AuthService.create_user_session: the row for a refresh token
create_user_session(id, user_id, refresh_token, t) ==
    [id |-> id, user_id |-> user_id, refresh_token_id |-> refresh_token.jti,
     expires_at |-> refresh_token.exp, is_active |-> TRUE, last_used_at |-> t]

\* the lookup without the is_active filter
active_session_any(rows, token_id) ==
    {session \in rows : session.refresh_token_id = token_id}

\* the lookup of refresh_access_token and revoke_session: the rows with this
\* token id that are active
active_session(rows, token_id) ==
    {session \in rows : session.refresh_token_id = token_id /\ session.is_active}

\* AuthService.refresh_access_token: the sessions table after the call and the
\* new access token, or no token. The row's expiry is compared with an aware
\* datetime; compare_ok is false when the row gives a naive one and the
\* comparison raises.
refresh_access_token(rows, refresh_token, compare_ok, t) ==
    LET found == active_session(rows, refresh_token.jti)
        none == [user_sessions |-> rows, ok |-> FALSE, access_token |-> Token("", 0, 0, 0, FALSE)]
    IN IF ~verify_token(refresh_token, "refresh", t) THEN none
       ELSE IF found = {} THEN none
       ELSE LET session == CHOOSE x \in found : TRUE
            IN IF ~compare_ok \/ session.expires_at < t THEN none
               ELSE [user_sessions |-> (rows \ {session}) \cup
                                          {[session EXCEPT !.last_used_at = t]},
                     ok |-> TRUE,
                     access_token |-> create_access_token(refresh_token.sub, t)]

\* AuthService.revoke_session
revoke_session(rows, refresh_token, t) ==
    LET found == active_session(rows, refresh_token.jti)
    IN IF ~verify_token(refresh_token, "refresh", t) \/ found = {} THEN rows
       ELSE LET session == CHOOSE x \in found : TRUE
            IN (rows \ {session}) \cup {[session EXCEPT !.is_active = FALSE]}

\* AuthService.revoke_all_user_sessions
revoke_all_user_sessions(rows, user_id) ==
    {IF session.user_id = user_id THEN [session EXCEPT !.is_active = FALSE]
     ELSE session : session \in rows}

\* AuthService.cleanup_expired_sessions
cleanup_expired_sessions(rows, t) ==
    {IF session.expires_at < t THEN [session EXCEPT !.is_active = FALSE]
     ELSE session : session \in rows}

\* AuthService.get_user_id_from_token
get_user_id_from_token(token, t) ==
    IF verify_token(token, "access", t) THEN token.sub ELSE None

\* the refresh tokens the server has issued: one per session row
IssuedRefreshTokens ==
    {Token("refresh", session.user_id, session.expires_at,
           session.refresh_token_id, TRUE) : session \in user_sessions}

\* the access tokens handed out at the sign-ins
IssuedAccessTokens ==
    {create_access_token(session.user_id,
                         session.expires_at - RefreshTokenExpireHours) :
        session \in user_sessions}

\* what a client can present where a refresh token is expected: an issued
\* refresh token, the same with a signature that is not the server's, or an
\* access token
PresentedRefreshTokens ==
    IssuedRefreshTokens
      \cup {[token EXCEPT !.signed = FALSE] : token \in IssuedRefreshTokens}
      \cup IssuedAccessTokens

\* GitHub accounts that sign in
GithubLogins == {"alice", "bob"}

AuthInit ==
    /\ now = 0
    /\ users = {}
    /\ user_sessions = {}
    /\ active_connections = <<>>
    /\ connection_info = <<>>
    /\ cleanup = IdleCleanup
    /\ repositories = {}
    /\ entities = {}
    /\ commit_analyses = {}
    /\ in_flight = NoDelivery
    /\ tx = NoTx
    /\ result = Result("init", 0, TRUE, "", FALSE)

\* GET /auth/github/callback: the user row is created at the first sign-in;
\* every sign-in mints a token pair and stores a session for the refresh token
GithubCallback ==
    \E login \in GithubLogins, github_ok \in BOOLEAN :
        IF ~github_ok
        THEN /\ result' = Result("github_callback", 0, FALSE, "Authentication failed", FALSE)
             /\ UNCHANGED <<now, repositories, entities, tx, auth_vars, analysis_vars, ws_vars>>
        ELSE /\ Cardinality(user_sessions) < MaxSessions
             /\ LET known == {u \in users : u.username = login}
                    user == IF known = {}
                            THEN create_user_from_github(FreshId(users), login)
                            ELSE CHOOSE u \in known : TRUE
                    refresh_token == create_refresh_token(user.id,
                                                          FreshId(user_sessions), now)
                IN /\ users' = users \cup {user}
                   /\ user_sessions' = user_sessions \cup
                         {create_user_session(FreshId(user_sessions), user.id,
                                              refresh_token, now)}
                   /\ result' = Result("github_callback", refresh_token, TRUE, "", FALSE)
             /\ UNCHANGED <<now, repositories, entities, tx, analysis_vars, ws_vars>>

\* POST /auth/refresh
RefreshToken ==
    \E refresh_token \in PresentedRefreshTokens, compare_ok \in BOOLEAN :
        LET out == refresh_access_token(user_sessions, refresh_token, compare_ok, now)
        IN /\ user_sessions' = out.user_sessions
           /\ result' = Result("refresh", refresh_token, out.ok,
                               IF out.ok THEN "" ELSE "Invalid or expired refresh token",
                               FALSE)
           /\ UNCHANGED <<now, repositories, entities, tx, users, analysis_vars, ws_vars>>

\* POST /auth/logout
Logout ==
    \E token \in IssuedAccessTokens :
        LET user_id == get_user_id_from_token(token, now)
        IN /\ user_sessions' = IF user_id # None
                               THEN revoke_all_user_sessions(user_sessions, user_id)
                               ELSE user_sessions
           /\ result' = Result("logout", token, TRUE, "", FALSE)
           /\ UNCHANGED <<now, repositories, entities, tx, users, analysis_vars, ws_vars>>

\* AuthService.revoke_session called with a refresh token
RevokeSession ==
    \E refresh_token \in PresentedRefreshTokens :
        LET rows == revoke_session(user_sessions, refresh_token, now)
        IN /\ user_sessions' = rows
           /\ result' = Result("revoke_session", refresh_token, rows # user_sessions,
                               "", FALSE)
           /\ UNCHANGED <<now, repositories, entities, tx, users, analysis_vars, ws_vars>>

\* AuthService.cleanup_expired_sessions
CleanupExpiredSessions ==
    /\ user_sessions' = cleanup_expired_sessions(user_sessions, now)
    /\ result' = Result("cleanup_expired_sessions", 0, TRUE, "", FALSE)
    /\ UNCHANGED <<now, repositories, entities, tx, users, analysis_vars, ws_vars>>

\* the lifetime of a refresh token passes
LongWait ==
    /\ now <= MaxNow
    /\ now' = now + RefreshTokenExpireHours
    /\ result' = Result("tick", 0, TRUE, "", FALSE)
    /\ UNCHANGED <<repositories, entities, tx, auth_vars, analysis_vars, ws_vars>>

AuthNext ==
    \/ GithubCallback
    \/ RefreshToken
    \/ Logout
    \/ RevokeSession
    \/ CleanupExpiredSessions
    \/ Tick
    \/ LongWait

SpecAuth == AuthInit /\ [][AuthNext]_vars

\* ==================================================== requests of two users

\* GET /repositories/{id}
GetRepositoryAs(current_user, repository_id) ==
    LET found == owned_repository(current_user, repository_id)
    IN /\ result' = IF found = {}
                    THEN NotFound("get_repository", "Repository not found", repository_id)
                    ELSE LET r == CHOOSE x \in found : TRUE
                         IN Result("get_repository",
                                   [repository |-> r, entity |-> entity_of(r)],
                                   TRUE, "", FALSE)
       /\ UNCHANGED <<now, repositories, entities, tx, auth_vars, analysis_vars, ws_vars>>

\* GET /entities/{id}
GetEntityAs(current_user, entity_id) ==
    LET found == owned_entity(current_user, entity_id)
    IN /\ result' = IF found = {}
                    THEN NotFound("get_entity", "Entity not found", entity_id)
                    ELSE Result("get_entity", [entity |-> found], TRUE, "", FALSE)
       /\ UNCHANGED <<now, repositories, entities, tx, auth_vars, analysis_vars, ws_vars>>

\* the commit hashes a request can name
CommitShas == {"a1", "b2"}

\* GET /analysis/commit/{commit_sha}?repository_id=
GetCommitAnalysisAs(current_user, repository_id, commit_sha) ==
        LET found == owned_repository(current_user, repository_id)
            analysis == {a \in commit_analyses : /\ a.commit_sha = commit_sha
                                                 /\ a.repository_id = repository_id}
        IN /\ result' = IF found = {}
                        THEN NotFound("get_commit_analysis", "Repository not found", repository_id)
                        ELSE IF analysis = {}
                        THEN NotFound("get_commit_analysis", "Commit analysis not found", repository_id)
                        ELSE Result("get_commit_analysis", [analysis |-> analysis],
                                    TRUE, "", FALSE)
           /\ UNCHANGED <<now, repositories, entities, tx, auth_vars, analysis_vars, ws_vars>>

\* DELETE /analysis/repository/{id}
DeleteRepositoryAnalysesAs(current_user, repository_id) ==
    LET found == owned_repository(current_user, repository_id)
    IN /\ IF found = {}
          THEN /\ result' = NotFound("delete_repository_analyses", "Repository not found", repository_id)
               /\ UNCHANGED commit_analyses
          ELSE /\ commit_analyses' =
                     {a \in commit_analyses : a.repository_id # repository_id}
               /\ result' = Result("delete_repository_analyses",
                     Cardinality({a \in commit_analyses :
                                     a.repository_id = repository_id}),
                     TRUE, "", FALSE)
       /\ UNCHANGED <<now, repositories, entities, tx, in_flight, auth_vars, ws_vars>>

\* two accounts, each with a synced repository and its entity; a commit of
\* bob's repository has been analysed
OwnerInit ==
    LET c == CHOOSE x \in PushAnalysisInputs : TRUE
    IN /\ now = 0
       /\ users = {create_user_from_github(1, "alice"),
                   create_user_from_github(2, "bob")}
       /\ user_sessions = {}
       /\ active_connections = <<>>
       /\ connection_info = <<>>
       /\ cleanup = IdleCleanup
       /\ repositories = {create_from_github(1, 1, 1), create_from_github(2, 2, 2)}
       /\ entities = {create_entity(1, 1, "pet"), create_entity(2, 2, "plant")}
       /\ commit_analyses = {analyze_commit(1, 2, [c EXCEPT !.sha = "b2"])}
       /\ in_flight = NoDelivery
       /\ tx = NoTx
       /\ result = Result("init", 0, TRUE, "", FALSE)

\* the inputs of the requests of the two users
OwnerEntityTypes == {"pet"}
OwnerHealthChanges == {-50}
OwnerInitialHealths == {30}
OwnerElapsedDays == {0}

\* a request of current_user that names a repository
RepositoryRequestAs(current_user, repository_id) ==
    \/ GetRepositoryAs(current_user, repository_id)
    \/ \E entity_type \in OwnerEntityTypes :
          CreateEntityAs(current_user, repository_id, entity_type)
    \/ EnableMonitoringAs(current_user, repository_id, TRUE, TRUE)
    \/ DisableMonitoringAs(current_user, repository_id, TRUE)
    \/ DeleteRepositoryAs(current_user, repository_id)
    \/ \E commit_sha \in CommitShas :
          GetCommitAnalysisAs(current_user, repository_id, commit_sha)
    \/ DeleteRepositoryAnalysesAs(current_user, repository_id)

\* a request of current_user that names an entity
EntityRequestAs(current_user, entity_id) ==
    \/ GetEntityAs(current_user, entity_id)
    \/ \E elapsed_days \in OwnerElapsedDays :
          DailyDecayAs(current_user, entity_id, elapsed_days)
    \/ \E health_change \in OwnerHealthChanges :
          ManualHealthAs(current_user, entity_id, health_change)
    \/ \E initial_health \in OwnerInitialHealths :
          ReviveAs(current_user, entity_id, initial_health)
    \/ DeleteEntityAs(current_user, entity_id)

\* the two users name the rows that are there, their own and the other's
RepositoryRequest ==
    \E current_user \in users, repository_id \in {r.id : r \in repositories} :
        RepositoryRequestAs(current_user, repository_id)

EntityRequest ==
    \E current_user \in users, entity_id \in {e.id : e \in entities} :
        EntityRequestAs(current_user, entity_id)

OwnerNext ==
    \/ RepositoryRequest
    \/ EntityRequest

SpecOwner == OwnerInit /\ [][OwnerNext]_vars

\* ================================================= analyses of single commits

\* the commits analysed and what the environment answers for each: without an
\* agent only the heuristic inputs vary
AnalysisInputs ==
    {[sha |-> "a1", ai_enabled |-> FALSE, quality_call |-> "failed", ai_quality |-> 0,
      impact_call |-> "failed", ai_impact |-> 0, has_commit_date |-> TRUE,
      total_changes |-> total_changes, has_test_files |-> FALSE,
      basic_quality |-> basic_quality] :
        total_changes \in {0, 100000}, basic_quality \in {20, 95}}
    \cup
    {[sha |-> "a1", ai_enabled |-> TRUE, quality_call |-> quality_call,
      ai_quality |-> 85, impact_call |-> impact_call, ai_impact |-> 35,
      has_commit_date |-> has_commit_date, total_changes |-> total_changes,
      has_test_files |-> FALSE, basic_quality |-> basic_quality] :
        quality_call \in {"ok", "failed", "raise"}, impact_call \in {"ok", "failed"},
        has_commit_date \in BOOLEAN, total_changes \in {0, 100000},
        basic_quality \in {20, 95}}

\* alice's repository, no commit analysed yet
AnalysisInit ==
    /\ now = 0
    /\ users = RegisteredUsers
    /\ user_sessions = {}
    /\ active_connections = <<>>
    /\ connection_info = <<>>
    /\ cleanup = IdleCleanup
    /\ repositories = {create_from_github(1, 1, 1)}
    /\ entities = {}
    /\ commit_analyses = {}
    /\ in_flight = NoDelivery
    /\ tx = NoTx
    /\ result = Result("init", 0, TRUE, "", FALSE)

\* AnalysisService.analyze_commit on a commit of a repository: db.add and
\* db.commit of the row it built
AnalyzeCommit ==
    \E r \in repositories, c \in AnalysisInputs :
        /\ Cardinality(commit_analyses) < MaxAnalyses
        /\ commit_analyses' = commit_analyses \cup
              {analyze_commit(FreshId(commit_analyses), r.id, c)}
        /\ result' = Result("analyze_commit", c, TRUE, "", FALSE)
        /\ UNCHANGED <<now, repositories, entities, tx, in_flight, auth_vars, ws_vars>>

AnalysisNext ==
    \/ AnalyzeCommit

SpecAnalysis == AnalysisInit /\ [][AnalysisNext]_vars

\* =================================================== WebSocket connections

Sockets == 1 .. MaxSockets

\* the token query parameter left out
NoToken == Token("", 0, 0, 0, FALSE)

\* f without key k
Without(f, k) == [x \in DOMAIN f \ {k} |-> f[x]]

\* f with key k set to v
With(f, k, v) == [x \in DOMAIN f \cup {k} |-> IF x = k THEN v ELSE f[x]]

\* the registry: both maps of the ConnectionManager
Registry(active, info) == [active_connections |-> active, connection_info |-> info]

\* ConnectionManager.connect, after websocket.accept()
connect(reg, websocket, user_id, t) ==
    LET had == IF user_id \in DOMAIN reg.active_connections
               THEN reg.active_connections[user_id] ELSE {}
    IN Registry(With(reg.active_connections, user_id, had \cup {websocket}),
                With(reg.connection_info, websocket,
                     [user_id |-> user_id, connected_at |-> t, last_ping |-> t]))

\* ConnectionManager.disconnect
disconnect(reg, websocket) ==
    IF websocket \notin DOMAIN reg.connection_info THEN reg
    ELSE LET user_id == reg.connection_info[websocket].user_id
             active ==
                 IF user_id \notin DOMAIN reg.active_connections
                 THEN reg.active_connections
                 ELSE LET rest == reg.active_connections[user_id] \ {websocket}
                      IN IF rest = {} THEN Without(reg.active_connections, user_id)
                         ELSE With(reg.active_connections, user_id, rest)
         IN Registry(active, Without(reg.connection_info, websocket))

\* the disconnects of a set of sockets, one after the other
RECURSIVE disconnect_all(_, _)
disconnect_all(reg, websockets) ==
    IF websockets = {} THEN reg
    ELSE LET websocket == CHOOSE x \in websockets : TRUE
         IN disconnect_all(disconnect(reg, websocket), websockets \ {websocket})

\* a loop that a failed send ends
remaining_after_failure_none(rest) == {}

\* the except clause of the send loop: the failure is noted and the loop goes
\* on with the sockets that remain
remaining_after_failure(rest) == rest

\* the loop over self.active_connections[user_id].copy(): send_text raises on
\* the sockets in broken; sent collects the sockets tried and
\* connections_to_remove
RECURSIVE send_to_each(_, _, _)
send_to_each(websockets, broken, sent) ==
    IF websockets = {} THEN sent
    ELSE LET websocket == CHOOSE x \in websockets : \A y \in websockets : x <= y
             rest == websockets \ {websocket}
         IN IF websocket \in broken
            THEN send_to_each(remaining_after_failure(rest), broken,
                              [attempted |-> sent.attempted \cup {websocket},
                               connections_to_remove |->
                                   sent.connections_to_remove \cup {websocket}])
            ELSE send_to_each(rest, broken,
                              [sent EXCEPT !.attempted = @ \cup {websocket}])

\* ConnectionManager.send_personal_message: the sockets tried, those whose
\* send_text raised, and the registry after these have been disconnected
send_personal_message_outcome(reg, user_id, broken) ==
    IF user_id \notin DOMAIN reg.active_connections
    THEN [registry |-> reg, attempted |-> {}, connections_to_remove |-> {}]
    ELSE LET sent == send_to_each(reg.active_connections[user_id], broken,
                                  [attempted |-> {}, connections_to_remove |-> {}])
         IN [registry |-> disconnect_all(reg, sent.connections_to_remove),
             attempted |-> sent.attempted,
             connections_to_remove |-> sent.connections_to_remove]

\* ConnectionManager.send_personal_message: the registry it leaves
send_personal_message(reg, user_id, broken) ==
    send_personal_message_outcome(reg, user_id, broken).registry

\* the authentication that takes the token's word for the user
authenticate_websocket_connection_trusts_token(token, t) ==
    [user_id |-> token.sub, code |-> None, reason |-> ""]

\* WebSocketService.authenticate_websocket_connection: the user's id, or the
\* close code and reason
authenticate_websocket_connection(token, t) ==
    LET user_id == get_user_id_from_token(token, t)
    IN IF user_id = None \/ user_id = 0
       THEN [user_id |-> None, code |-> 4001, reason |-> "Invalid token"]
       ELSE IF ~\E user \in users : user.id = user_id
       THEN [user_id |-> None, code |-> 4001, reason |-> "User not found"]
       ELSE [user_id |-> user_id, code |-> None, reason |-> ""]

\* what a client can put in the token parameter: nothing, an access token of a
\* sign-in, the same with a signature that is not the server's, a refresh
\* token, or a signed access token for an id no user has
TokenParameters ==
    {NoToken}
      \cup IssuedAccessTokens
      \cup {[token EXCEPT !.signed = FALSE] : token \in IssuedAccessTokens}
      \cup IssuedRefreshTokens
      \cup {create_access_token(FreshId(users), now)}

\* the WebSocket objects in use: those of the registry and those the cleanup
\* thread holds a reference to
SocketsInUse == DOMAIN connection_info \cup cleanup.seen \cup cleanup.stale_connections

\* the WebSocket object of the next connection
FreshSocket == CHOOSE websocket \in Sockets :
                   /\ websocket \notin SocketsInUse
                   /\ \A x \in 1 .. websocket - 1 : x \in SocketsInUse

\* websocket_endpoint and handle_websocket_connection up to its receive loop
WebSocketEndpoint ==
    \E token \in TokenParameters, broken \in SUBSET Sockets :
        /\ Sockets \ SocketsInUse # {}
        /\ LET websocket == FreshSocket
               auth == authenticate_websocket_connection(token, now)
               reg == Registry(active_connections, connection_info)
               request(code) == [websocket |-> websocket, token |-> token,
                                 code |-> code]
           IN IF token = NoToken
              THEN /\ broken = {}
                   /\ result' = Result("websocket_endpoint", request(4000), FALSE,
                                       "Missing authentication token", FALSE)
                   /\ UNCHANGED ws_vars
              ELSE IF auth.user_id = None
              THEN /\ broken = {}
                   /\ result' = Result("websocket_endpoint", request(auth.code), FALSE,
                                       auth.reason, FALSE)
                   /\ UNCHANGED ws_vars
              ELSE LET out == send_personal_message(
                                  connect(reg, websocket, auth.user_id, now),
                                  auth.user_id, broken)
                   IN /\ broken \subseteq DOMAIN connection_info \cup {websocket}
                      /\ active_connections' = out.active_connections
                      /\ connection_info' = out.connection_info
                      /\ UNCHANGED cleanup
                      /\ result' = Result("websocket_endpoint", request(None), TRUE,
                                          "", FALSE)
        /\ UNCHANGED <<now, repositories, entities, tx, auth_vars, analysis_vars>>

\* WebSocketDisconnect in the receive loop
WebSocketDisconnect ==
    \E websocket \in DOMAIN connection_info :
        LET out == disconnect(Registry(active_connections, connection_info), websocket)
        IN /\ active_connections' = out.active_connections
           /\ connection_info' = out.connection_info
           /\ UNCHANGED cleanup
           /\ result' = Result("disconnect", websocket, TRUE, "", FALSE)
           /\ UNCHANGED <<now, repositories, entities, tx, auth_vars, analysis_vars>>

SocketNext ==
    \/ GithubCallback
    \/ LongWait
    \/ WebSocketEndpoint
    \/ WebSocketDisconnect

SpecSocket == AuthInit /\ [][SocketNext]_vars

\* ================================================= the cleanup thread

\* (now - info["last_ping"]).total_seconds() > 300, the clock counting hours
is_stale(info, t) == (t - info.last_ping) * 3600 > StaleSeconds

\* ConnectionManager.handle_ping: last_ping of a registered socket
handle_ping(reg, websocket, t) ==
    IF websocket \notin DOMAIN reg.connection_info THEN reg
    ELSE Registry(reg.active_connections,
                  [reg.connection_info EXCEPT ![websocket].last_ping = t])

\* a "ping" message in the receive loop of a socket; when the pong cannot be
\* sent the exception ends the loop and the socket is disconnected
HandlePing ==
    \E websocket \in DOMAIN connection_info, send_ok \in BOOLEAN :
        LET pinged == handle_ping(Registry(active_connections, connection_info),
                                  websocket, now)
            out == IF send_ok THEN pinged ELSE disconnect(pinged, websocket)
        IN /\ active_connections' = out.active_connections
           /\ connection_info' = out.connection_info
           /\ result' = Result("handle_ping", websocket, send_ok, "", FALSE)
           /\ UNCHANGED <<now, repositories, entities, tx, auth_vars, analysis_vars, cleanup>>

\* periodic_cleanup wakes up and cleanup_stale_connections starts: now is
\* read and the iterator over connection_info.items() is made, which notes
\* the size of the dictionary
PeriodicCleanup ==
    /\ cleanup.pc = "sleeping"
    /\ cleanup' = [IdleCleanup EXCEPT !.pc = "scanning", !.now = now,
                                      !.used = Cardinality(DOMAIN connection_info)]
    /\ result' = Result("periodic_cleanup", 0, TRUE, "", FALSE)
    /\ UNCHANGED <<now, repositories, entities, tx, auth_vars, analysis_vars,
                   active_connections, connection_info>>

\* one turn of the for loop over connection_info.items(), run by the cleanup
\* thread while the event loop of the main thread serves the sockets: the
\* iterator raises RuntimeError when the dictionary has changed its size, and
\* nothing catches it in cleanup_stale_connections, periodic_cleanup or
\* start_cleanup_task: the thread ends
CleanupScan ==
    /\ cleanup.pc = "scanning"
    /\ LET rest == DOMAIN connection_info \ cleanup.seen
       IN IF Cardinality(DOMAIN connection_info) # cleanup.used
          THEN /\ cleanup' = [IdleCleanup EXCEPT !.pc = "stopped"]
               /\ result' = Result("cleanup_stale_connections", 0, FALSE,
                                   "dictionary changed size during iteration", FALSE)
          ELSE IF rest = {}
          THEN /\ cleanup' = [cleanup EXCEPT !.pc = "disconnecting", !.seen = {}]
               /\ result' = Result("cleanup_stale_connections", 0, TRUE, "scanned", FALSE)
          ELSE \E websocket \in rest :
                 /\ cleanup' = [cleanup EXCEPT
                       !.seen = @ \cup {websocket},
                       !.stale_connections =
                           IF is_stale(connection_info[websocket], cleanup.now)
                           THEN @ \cup {websocket} ELSE @]
                 /\ result' = Result("cleanup_stale_connections", websocket, TRUE,
                                     "", FALSE)
    /\ UNCHANGED <<now, repositories, entities, tx, auth_vars, analysis_vars,
                   active_connections, connection_info>>

\* one turn of the loop over stale_connections, up to the call of discard in
\* disconnect; after the last turn cleanup_stale_connections returns and
\* periodic_cleanup sleeps. The thread can be switched out when discard
\* returns, and the event loop of the main thread then runs
CleanupDisconnect ==
    /\ cleanup.pc = "disconnecting"
    /\ IF cleanup.stale_connections = {}
       THEN /\ cleanup' = IdleCleanup
            /\ result' = Result("cleanup_stale_connections", 0, TRUE, "done", FALSE)
            /\ UNCHANGED <<active_connections, connection_info>>
       ELSE \E websocket \in cleanup.stale_connections :
              IF websocket \notin DOMAIN connection_info
              THEN /\ cleanup' = [cleanup EXCEPT !.stale_connections = @ \ {websocket}]
                   /\ result' = Result("cleanup_stale_connections", websocket, TRUE,
                                       "unknown", FALSE)
                   /\ UNCHANGED <<active_connections, connection_info>>
              ELSE LET user_id == connection_info[websocket].user_id
                   IN IF user_id \in DOMAIN active_connections
                      THEN /\ active_connections' =
                                [active_connections EXCEPT ![user_id] = @ \ {websocket}]
                           /\ cleanup' = [cleanup EXCEPT !.pc = "discarded",
                                                         !.websocket = websocket,
                                                         !.user_id = user_id]
                           /\ result' = Result("cleanup_stale_connections", websocket,
                                               TRUE, "discarded", FALSE)
                           /\ UNCHANGED connection_info
                      ELSE /\ connection_info' = Without(connection_info, websocket)
                           /\ cleanup' = [cleanup EXCEPT
                                             !.stale_connections = @ \ {websocket}]
                           /\ result' = Result("cleanup_stale_connections", websocket,
                                               TRUE, "disconnected", FALSE)
                           /\ UNCHANGED active_connections
    /\ UNCHANGED <<now, repositories, entities, tx, auth_vars, analysis_vars>>

\* the rest of disconnect in the cleanup thread: the test of the user's set,
\* the two del statements. A key that the main thread has deleted meanwhile
\* raises KeyError, which nothing catches: the thread ends
CleanupRemove ==
    /\ cleanup.pc = "discarded"
    /\ LET websocket == cleanup.websocket
           user_id == cleanup.user_id
           stopped == [IdleCleanup EXCEPT !.pc = "stopped"]
       IN IF user_id \notin DOMAIN active_connections
          THEN /\ cleanup' = stopped
               /\ result' = Result("cleanup_stale_connections", websocket, FALSE,
                                   "KeyError", FALSE)
               /\ UNCHANGED <<active_connections, connection_info>>
          ELSE /\ active_connections' =
                    IF active_connections[user_id] = {}
                    THEN Without(active_connections, user_id)
                    ELSE active_connections
               /\ IF websocket \notin DOMAIN connection_info
                  THEN /\ cleanup' = stopped
                       /\ result' = Result("cleanup_stale_connections", websocket,
                                           FALSE, "KeyError", FALSE)
                       /\ UNCHANGED connection_info
                  ELSE /\ connection_info' = Without(connection_info, websocket)
                       /\ cleanup' = [cleanup EXCEPT
                                         !.pc = "disconnecting",
                                         !.stale_connections = @ \ {websocket},
                                         !.websocket = 0, !.user_id = 0]
                       /\ result' = Result("cleanup_stale_connections", websocket,
                                           TRUE, "disconnected", FALSE)
    /\ UNCHANGED <<now, repositories, entities, tx, auth_vars, analysis_vars>>

\* alice has signed in; no socket is open and the cleanup thread has started
CleanupInit ==
    /\ now = 0
    /\ users = RegisteredUsers
    /\ user_sessions = {create_user_session(1, 1, create_refresh_token(1, 1, 0), 0)}
    /\ active_connections = <<>>
    /\ connection_info = <<>>
    /\ cleanup = IdleCleanup
    /\ repositories = {}
    /\ entities = {}
    /\ commit_analyses = {}
    /\ in_flight = NoDelivery
    /\ tx = NoTx
    /\ result = Result("init", 0, TRUE, "", FALSE)

CleanupNext ==
    \/ WebSocketEndpoint
    \/ WebSocketDisconnect
    \/ HandlePing
    \/ Tick
    \/ PeriodicCleanup
    \/ CleanupScan
    \/ CleanupDisconnect
    \/ CleanupRemove

SpecCleanup == CleanupInit /\ [][CleanupNext]_vars

\* ---------------------------------------------------------------------------
\* messages to the sockets of a user
\* ---------------------------------------------------------------------------

\* a caller of send_personal_message (send_entity_update, send_notification,
\* a message handler): send_text raises on the sockets in broken
SendPersonalMessage ==
    \E user_id \in {u.id : u \in users} \cup {FreshId(users)},
       broken \in SUBSET DOMAIN connection_info :
        LET out == send_personal_message_outcome(
                       Registry(active_connections, connection_info), user_id, broken)
        IN /\ active_connections' = out.registry.active_connections
           /\ connection_info' = out.registry.connection_info
           /\ result' = Result("send_personal_message",
                               [user_id |-> user_id, broken |-> broken,
                                attempted |-> out.attempted,
                                connections_to_remove |-> out.connections_to_remove],
                               TRUE, "", FALSE)
           /\ UNCHANGED <<now, repositories, entities, tx, auth_vars, analysis_vars, cleanup>>

\* WebSocketDisconnect in the receive loop of a socket that a failed send or
\* the cleanup has already taken out of the registry
WebSocketDisconnectUnknown ==
    \E websocket \in Sockets \ DOMAIN connection_info :
        LET out == disconnect(Registry(active_connections, connection_info), websocket)
        IN /\ active_connections' = out.active_connections
           /\ connection_info' = out.connection_info
           /\ result' = Result("disconnect", websocket, TRUE, "unknown", FALSE)
           /\ UNCHANGED <<now, repositories, entities, tx, auth_vars, analysis_vars, cleanup>>

\* alice and bob have signed in; no socket is open
MessageInit ==
    /\ now = 0
    /\ users = {create_user_from_github(1, "alice"), create_user_from_github(2, "bob")}
    /\ user_sessions = {create_user_session(1, 1, create_refresh_token(1, 1, 0), 0),
                        create_user_session(2, 2, create_refresh_token(2, 2, 0), 0)}
    /\ active_connections = <<>>
    /\ connection_info = <<>>
    /\ cleanup = IdleCleanup
    /\ repositories = {}
    /\ entities = {}
    /\ commit_analyses = {}
    /\ in_flight = NoDelivery
    /\ tx = NoTx
    /\ result = Result("init", 0, TRUE, "", FALSE)

MessageNext ==
    \/ WebSocketEndpoint
    \/ WebSocketDisconnect
    \/ SendPersonalMessage

SpecMessage == MessageInit /\ [][MessageNext]_vars

\* ---------------------------------------------------------------------------
\* the registry under every operation that changes it
\* ---------------------------------------------------------------------------

RegistryNext ==
    \/ WebSocketEndpoint
    \/ WebSocketDisconnect
    \/ WebSocketDisconnectUnknown
    \/ HandlePing
    \/ SendPersonalMessage
    \/ Tick
    \/ PeriodicCleanup
    \/ CleanupScan
    \/ CleanupDisconnect
    \/ CleanupRemove

SpecRegistry == CleanupInit /\ [][RegistryNext]_vars

\* ---------------------------------------------------------------------------
\* EntityService.get_entity_stats: the health trend
\* ---------------------------------------------------------------------------

\* the longest health history asked about, and the scores of its rows
StatsEntries == 12
StatsScores == {20, 80}

\* the Python slice s[a:b] of a list
Slice(s, a, b) == SubSeq(s, a + 1, Min(b, Len(s)))

\* sum(h.health_score for h in s)
RECURSIVE SumScores(_)
SumScores(s) == IF s = <<>> THEN 0 ELSE Head(s) + SumScores(Tail(s))

\* the health_trend of get_entity_stats for the rows of the entity, newest
\* first; the two averages are compared as fractions. A division by
\* min(10, 0) raises ZeroDivisionError
health_trend(health_history) ==
    LET recent_history == Slice(health_history, 0, 30)
        recent == Slice(recent_history, 0, 10)
        older == Slice(recent_history, 10, 20)
        n_recent == Min(10, Len(recent_history))
        n_older == Min(10, Len(older))
    IN IF Len(recent_history) >= 2
       THEN IF n_older = 0 THEN "ZeroDivisionError"
            ELSE IF SumScores(recent) * n_older > (SumScores(older) + 5 * n_older) * n_recent
            THEN "improving"
            ELSE IF SumScores(recent) * n_older < (SumScores(older) - 5 * n_older) * n_recent
            THEN "declining"
            ELSE "stable"
       ELSE "stable"

\* an entity and the rows of its health history, newest first, that a request
\* for its statistics will find
StatsInit ==
    /\ now = 0
    /\ repositories = {}
    /\ entities = {create_for_repository(1, 1, "pet")}
    /\ tx = NoTx
    /\ \E n \in 0 .. StatsEntries :
          \E health_history \in [1 .. n -> StatsScores] :
              result = Result("request", health_history, TRUE, "", FALSE)
    /\ users = {}
    /\ user_sessions = {}
    /\ active_connections = <<>>
    /\ connection_info = <<>>
    /\ cleanup = IdleCleanup
    /\ commit_analyses = {}
    /\ in_flight = NoDelivery

\* the request reaches get_entity_stats
GetEntityStats ==
    /\ result.op = "request"
    /\ result' = Result("get_entity_stats", result.arg,
                        health_trend(result.arg) # "ZeroDivisionError",
                        health_trend(result.arg), FALSE)
    /\ UNCHANGED <<now, repositories, entities, tx, auth_vars, analysis_vars, ws_vars>>

StatsNext == GetEntityStats

SpecStats == StatsInit /\ [][StatsNext]_vars

\* ---------------------------------------------------------------------------
\* AnalysisService._analyze_commit_message
\* ---------------------------------------------------------------------------

\* a message is the sequence of its characters
Capitals == <<"A", "B", "C", "D", "E", "F", "G", "H", "I", "J", "K", "L", "M", "N", "O", "P", "Q", "R", "S", "T", "U", "V", "W", "X", "Y", "Z">>
Letters == <<"a", "b", "c", "d", "e", "f", "g", "h", "i", "j", "k", "l", "m", "n", "o", "p", "q", "r", "s", "t", "u", "v", "w", "x", "y", "z">>
Whitespace == {" ", "\n", "\t"}

\* str.isupper of one character
isupper(c) == \E i \in DOMAIN Capitals : Capitals[i] = c

\* the character as re.IGNORECASE compares it
lower(c) == IF isupper(c) THEN Letters[CHOOSE i \in DOMAIN Capitals : Capitals[i] = c] ELSE c

\* str.strip
RECURSIVE strip(_)
strip(s) ==
    IF s = <<>> THEN s
    ELSE IF Head(s) \in Whitespace THEN strip(Tail(s))
    ELSE IF s[Len(s)] \in Whitespace THEN strip(SubSeq(s, 1, Len(s) - 1))
    ELSE s

\* message.split('\n')
RECURSIVE split_lines(_)
split_lines(s) ==
    IF \A i \in DOMAIN s : s[i] # "\n" THEN <<s>>
    ELSE LET i == CHOOSE j \in DOMAIN s : s[j] = "\n" /\ \A k \in 1 .. j - 1 : s[k] # "\n"
         IN <<SubSeq(s, 1, i - 1)>> \o split_lines(SubSeq(s, i + 1, Len(s)))

\* '\n'.join(lines)
RECURSIVE join_lines(_)
join_lines(lines) ==
    IF lines = <<>> THEN <<>>
    ELSE IF Len(lines) = 1 THEN lines[1]
    ELSE lines[1] \o <<"\n">> \o join_lines(Tail(lines))

\* the line begins with the word, whatever the case of its letters
starts_with(line, word) ==
    /\ Len(line) >= Len(word)
    /\ \A i \in DOMAIN word : lower(line[i]) = word[i]

\* re.match(r'^word(\(.+\))?: .+', line, re.IGNORECASE)
matches_conventional(line, word) ==
    /\ starts_with(line, word)
    /\ LET rest == SubSeq(line, Len(word) + 1, Len(line))
           colon(at) == /\ Len(rest) >= at + 2
                        /\ rest[at] = ":"
                        /\ rest[at + 1] = " "
       IN \/ colon(1)
          \/ /\ rest # <<>>
             /\ rest[1] = "("
             /\ \E close \in 3 .. Len(rest) : rest[close] = ")" /\ colon(close + 1)

\* re.match(r'^word$', line, re.IGNORECASE)
matches_bad(line, word) == Len(line) = Len(word) /\ starts_with(line, word)

conventional_patterns == {<<"f", "e", "a", "t">>, <<"f", "i", "x">>, <<"d", "o", "c", "s">>, <<"s", "t", "y", "l", "e">>, <<"r", "e", "f", "a", "c", "t", "o", "r">>, <<"t", "e", "s", "t">>, <<"c", "h", "o", "r", "e">>}
bad_patterns == {<<"f", "i", "x">>, <<"u", "p", "d", "a", "t", "e">>, <<"c", "h", "a", "n", "g", "e", "s">>, <<"w", "i", "p">>, <<"t", "m", "p">>}

\* the checks of _analyze_commit_message on the first line and the body
first_line_of(message) == strip(split_lines(message)[1])
length_score(first_line) == IF 10 <= Len(first_line) /\ Len(first_line) <= 72 THEN 15 ELSE IF Len(first_line) < 10 THEN -20 ELSE -10
is_conventional(first_line) == \E word \in conventional_patterns : matches_conventional(first_line, word)
is_capitalized_always(first_line) == TRUE
is_capitalized(first_line) == first_line # <<>> /\ isupper(first_line[1])
no_period(first_line) == first_line # <<>> /\ first_line[Len(first_line)] # "."
has_body(message) == LET lines == split_lines(message) IN Len(lines) > 2 /\ Len(strip(join_lines(SubSeq(lines, 3, Len(lines))))) > 20
is_bad(first_line) == \E word \in bad_patterns : matches_bad(first_line, word)

\* AnalysisService._analyze_commit_message, the score as the code adds it up
analyze_commit_message(message) ==
    IF message = <<>> THEN 0
    ELSE LET first_line == first_line_of(message)
             s1 == 50 + length_score(first_line)
             s2 == IF is_conventional(first_line) THEN s1 + 20 ELSE s1
             s3 == IF is_capitalized(first_line) THEN s2 + 5 ELSE s2
             s4 == IF no_period(first_line) THEN s3 + 5 ELSE s3
             s5 == IF has_body(message) THEN s4 + 10 ELSE s4
             s6 == IF is_bad(first_line) THEN s5 - 30 ELSE s5
         IN Max(0, Min(100, s6))

\* the messages scored: a beginning, a run of letters, an end, and what
\* follows the first line
Repeat(c, n) == [i \in 1 .. n |-> c]
FeatMessage == <<"f", "e", "a", "t", "(", "a", "u", "t", "h", ")", ":", " ", "a", "d", "d", " ", "J", "W", "T", " ", "t", "o", "k", "e", "n", " ", "r", "e", "f", "r", "e", "s", "h", " ", "f", "u", "n", "c", "t", "i", "o", "n", "a", "l", "i", "t", "y">>
FixMessage == <<"f", "i", "x">>
MessageHeads == {<<"f", "e", "a", "t", ":", " ">>, <<"F", "i", "x", "(", "x", ")", ":", " ">>, <<"f", "i", "x">>, <<"W", "I", "P">>, <<"d", "o", "c", "s", "(", ")", ":", " ">>, <<"A", "d", "d", " ">>, <<>>, <<"t", "e", "s", "t", ":">>, <<"c", "h", "o", "r", "e", "(", "a", ")", ")", ":", " ">>, <<"u", "p", "d", "a", "t", "e">>}
MessagePads == {0, 4, 7, 64, 70}
MessageEnds == {<<>>, <<".">>, <<" ">>}
MessageTails == {<<>>, <<"\n">> \o Repeat("b", 25), <<"\n", "\n">> \o Repeat("b", 20), <<"\n", "\n">> \o Repeat("b", 21), <<"\n", "\n", " ">> \o Repeat("b", 20) \o <<"\n">>}
CommitMessages == {FeatMessage, FixMessage, <<" ">>} \cup {head \o Repeat("a", pad) \o end \o tail : head \in MessageHeads, pad \in MessagePads, end \in MessageEnds, tail \in MessageTails}

\* 1 for a check that holds, 0 otherwise
Bit(b) == IF b THEN 1 ELSE 0

\* a commit whose message is about to be scored
MessageScoreInit ==
    /\ now = 0
    /\ repositories = {}
    /\ entities = {}
    /\ tx = NoTx
    /\ \E message \in CommitMessages : result = Result("message", message, TRUE, "", FALSE)
    /\ users = {}
    /\ user_sessions = {}
    /\ active_connections = <<>>
    /\ connection_info = <<>>
    /\ cleanup = IdleCleanup
    /\ commit_analyses = {}
    /\ in_flight = NoDelivery

\* _fallback_analysis scores the message
AnalyzeCommitMessage ==
    /\ result.op = "message"
    /\ result' = Result("_analyze_commit_message",
                        [message |-> result.arg, score |-> analyze_commit_message(result.arg)],
                        TRUE, "", FALSE)
    /\ UNCHANGED <<now, repositories, entities, tx, auth_vars, analysis_vars, ws_vars>>

MessageScoreNext == AnalyzeCommitMessage

SpecMessageScore == MessageScoreInit /\ [][MessageScoreNext]_vars

\* ============================== push deliveries handled concurrently
\*
\* The handlers are coroutines of one event loop: a handler runs until it
\* awaits, and only there another handler or request is served. A delivery
\* awaits the commit details and the analyses (webhook_service.py:150, 159);
\* from `entity = repository.entity` (line 164) to the end it does not await.
\* The routes of routers/entities.py do not await at all.

\* the delivery of each request: the owner's commit
ConcurrentPayloads == {<<Commit("a1", 1, "alice", 10, 0)>>}

\* what the analysis of a delivery meets: the heuristic engine on an
\* excellent and on a poor commit
ConcurrentAnalysisInputs ==
    {[c EXCEPT !.basic_quality = basic_quality] :
        c \in PushAnalysisInputs, basic_quality \in {20, 95}}

\* the handler holding the Entity object from before its awaits
entity_before_await_loaded(r) == entity_of(r)

\* the Entity objects a delivery holds when it reaches its first await: none,
\* repository.entity has not been touched
entity_before_await(r) == {}

\* _handle_push_event up to the first await: the lookups, the checks and the
\* filter
PushBegin(q) ==
    /\ in_flight[q].pc = "idle"
    /\ \E gid \in GithubRepoIds, commits \in ConcurrentPayloads :
          LET found == {r \in repositories : r.github_repo_id = gid}
              arg == [github_repo_id |-> gid, commits |-> commits]
              answer(ok, message) ==
                  /\ result' = Result("push", arg, ok, message, FALSE)
                  /\ UNCHANGED in_flight
          IN IF found = {} THEN answer(FALSE, "Repository not found in database")
             ELSE LET r == CHOOSE x \in found : TRUE
                      owners == {u \in users : u.id = r.user_id}
                  IN IF monitoring_not_active(r)
                     THEN answer(FALSE, "Monitoring not active")
                     ELSE IF owners = {}
                     THEN answer(FALSE, "Repository owner not found")
                     ELSE LET user == CHOOSE u \in owners : TRUE
                              filtered == filtered_commits(commits, user.username)
                          IN IF filtered = <<>>
                             THEN answer(TRUE, "No relevant commits to process")
                             ELSE /\ in_flight' = [in_flight EXCEPT ![q] =
                                        [pc |-> "analysing", repository_id |-> r.id,
                                         payload |-> commits, commits |-> filtered,
                                         analyses |-> <<>>,
                                         entity |-> entity_before_await(r)]]
                                  /\ result' = Result("in_flight", q, TRUE, "", FALSE)
    /\ UNCHANGED <<now, repositories, entities, tx, commit_analyses, auth_vars, ws_vars>>

\* the awaited part: the commit details and batch_analyze_commits, which
\* commits each row
PushAnalyze(q) ==
    /\ in_flight[q].pc = "analysing"
    /\ \E c \in ConcurrentAnalysisInputs :
          LET analyses == batch_analyze_commits(commit_analyses,
                              in_flight[q].repository_id, in_flight[q].commits, c)
          IN /\ Cardinality(commit_analyses) + Len(analyses) <= MaxAnalyses
             /\ commit_analyses' = commit_analyses \cup Range(analyses)
             /\ in_flight' = [in_flight EXCEPT ![q] =
                                 [@ EXCEPT !.pc = "applying", !.analyses = analyses]]
             /\ result' = Result("in_flight", q, TRUE, "", FALSE)
    /\ UNCHANGED <<now, repositories, entities, tx, auth_vars, ws_vars>>

\* from `entity = repository.entity` to the response: the entity is loaded,
\* the impacts are applied and committed, the repository is updated
PushApply(q) ==
    /\ in_flight[q].pc = "applying"
    /\ \E r \in {x \in repositories : x.id = in_flight[q].repository_id} :
        \E cooldown_hours \in 1 .. MaxCooldownHours(r) :
          LET arg == [github_repo_id |-> r.github_repo_id,
                      commits |-> in_flight[q].payload]
              held == IF in_flight[q].entity # {} THEN in_flight[q].entity
                      ELSE entity_of(r)
          IN IF held = {}
             THEN /\ cooldown_hours = 1
                  /\ result' = Result("push", arg, FALSE,
                                      "No entity found for repository", FALSE)
                  /\ UNCHANGED <<repositories, entities>>
             ELSE LET e == CHOOSE x \in held : TRUE
                      e2 == apply_analyses(e, in_flight[q].analyses, cooldown_hours, now)
                      r2 == [update_last_monitored(r, now) EXCEPT
                                !.last_commit_sha = latest_commit(in_flight[q].payload).id]
                  IN /\ e2.health_history.count <= MaxHistory
                     /\ entities' = {x \in entities : x.id # e2.id} \cup {e2}
                     /\ repositories' = (repositories \ {r}) \cup {r2}
                     /\ result' = Result("push", arg, TRUE, "Processed", FALSE)
    /\ in_flight' = [in_flight EXCEPT ![q] = IdleDelivery]
    /\ UNCHANGED <<now, tx, commit_analyses, auth_vars, ws_vars>>

\* the manual updates requested while deliveries are in flight
ConcurrentHealthChanges == {10}

ConcurrentManualHealth ==
    \E current_user \in users, e \in entities, health_change \in ConcurrentHealthChanges :
        ManualHealthAs(current_user, e.id, health_change)

\* alice's repository is monitored and has a creature
ConcurrentInit ==
    /\ now = 0
    /\ users = RegisteredUsers
    /\ user_sessions = {}
    /\ active_connections = <<>>
    /\ connection_info = <<>>
    /\ cleanup = IdleCleanup
    /\ repositories = {enable_monitoring(create_from_github(1, 1, 1), 0)}
    /\ entities = {create_entity(1, 1, "creature")}
    /\ commit_analyses = {}
    /\ in_flight = NoDelivery
    /\ tx = NoTx
    /\ result = Result("enable_repository_monitoring", 0, TRUE, "", FALSE)

ConcurrentNext ==
    \/ \E q \in RequestIds : PushBegin(q)
    \/ \E q \in RequestIds : PushAnalyze(q)
    \/ \E q \in RequestIds : PushApply(q)
    \/ ConcurrentManualHealth
    \/ Tick

SpecConcurrent == ConcurrentInit /\ [][ConcurrentNext]_vars

\* ============================ POST /repositories/{id}/entity, step by step

\* rows flushed by open transactions, not yet committed
Pending == UNION {tx[q].rows : q \in RequestIds}

\* rows flushed by the transactions of the other requests
PendingOthers(q) == UNION {tx[p].rows : p \in RequestIds \ {q}}

\* without the unique constraint no row conflicts
Conflicts_off(row, rows) == FALSE

\* Column repository_id ... unique=True: the INSERT of row conflicts with a
\* row of the same repository
Conflicts(row, rows) == \E x \in rows : x.repository_id = row.repository_id

\* the handler loads the repository and tests repository.entity
CreateBegin(q) ==
    /\ tx[q].pc = "idle"
    /\ \E r \in repositories, entity_type \in EntityTypes :
          IF entity_of(r) # {}
          THEN /\ result' = Result("create_entity_for_repository", q, FALSE,
                                   "Entity already exists for this repository", FALSE)
               /\ UNCHANGED tx
          ELSE /\ tx' = [tx EXCEPT ![q] = [pc |-> "checked", repository_id |-> r.id,
                                           entity_type |-> entity_type, rows |-> {}]]
               /\ result' = Result("in_flight", q, TRUE, "", FALSE)
    /\ UNCHANGED <<now, repositories, entities, auth_vars, analysis_vars, ws_vars>>

\* create_entity up to db.flush(): the INSERT waits for an open transaction
\* that holds a conflicting row, and fails against a committed one
CreateFlush(q) ==
    /\ tx[q].pc = "checked"
    /\ LET row == create_entity(FreshId(entities \cup Pending),
                                tx[q].repository_id, tx[q].entity_type)
       IN /\ ~Conflicts(row, PendingOthers(q))
          /\ IF Conflicts(row, entities)
             THEN /\ tx' = [tx EXCEPT ![q] = IdleTx]
                  /\ result' = Result("create_entity_for_repository", q, FALSE,
                                      "Failed to create entity", FALSE)
             ELSE /\ tx' = [tx EXCEPT ![q] = [@ EXCEPT !.pc = "flushed",
                                                       !.rows = {row}]]
                  /\ result' = Result("in_flight", q, TRUE, "", FALSE)
    /\ UNCHANGED <<now, repositories, entities, auth_vars, analysis_vars, ws_vars>>

\* create_entity from the birth row to db.commit(), and the response
CreateCommit(q) ==
    /\ tx[q].pc = "flushed"
    /\ entities' = entities \cup tx[q].rows
    /\ tx' = [tx EXCEPT ![q] = IdleTx]
    /\ result' = Result("create_entity_for_repository", q, TRUE, "", FALSE)
    /\ UNCHANGED <<now, repositories, auth_vars, analysis_vars, ws_vars>>

CreateNext ==
    \/ SyncRepositories
    \/ DeleteEntity
    \/ \E q \in RequestIds : CreateBegin(q)
    \/ \E q \in RequestIds : CreateFlush(q)
    \/ \E q \in RequestIds : CreateCommit(q)

SpecCreate == Init /\ [][CreateNext]_vars

\* ================================================================= claims

\* C1: in every state reached through entity creation, commit-driven updates,
\* decay, manual health updates and revival, every entity's health_score (and
\* the score of its newest history row) is an integer between 0 and 100.
C1_HealthInRange ==
    \A e \in entities :
        /\ e.health_score \in 0 .. 100
        /\ e.health_history.newest.health_score \in 0 .. 100

\* C1 witness: a creature born at 40 whose first write was a manual change of
\* -50: 40 - 50 is below the range and 0 is stored.
C1_Witness ==
    \E e \in entities :
        /\ e.entity_type = "creature"
        /\ e.health_history.count = 2
        /\ e.health_history.newest.change_reason = "manual"
        /\ result.op = "update_entity_health" /\ result.arg = -50 /\ result.ok
        /\ e.health_score = 0

\* C2: a call of update_health / apply_health_delta sets the status from the
\* status before and the clamped new health: 0 on a non-dead entity gives dead
\* and records the death timestamp; otherwise <= 15 on an alive entity gives
\* dying and > 15 on a dying entity gives alive; otherwise the status (and the
\* death timestamp) stay; the call returns true exactly when the entity was
\* not dead before and is dead after.
C2_StatusTransition ==
    [][\A e \in entities : \A e2 \in entities' :
          result'.op \in {"update_health", "apply_health_delta"} =>
             LET h == e2.health_score IN
             /\ (h = 0 /\ e.status # "dead")
                   => (e2.status = "dead" /\ e2.death_date = now)
             /\ (h # 0 /\ h <= 15 /\ e.status = "alive") => e2.status = "dying"
             /\ (h > 15 /\ e.status = "dying") => e2.status = "alive"
             /\ (h > 15 /\ e.status = "alive") => e2.status = "alive"
             /\ (h # 0 /\ h <= 15 /\ e.status = "dying") => e2.status = "dying"
             /\ e.status = "dead" => e2.status = "dead"
             /\ ~(h = 0 /\ e.status # "dead") => e2.death_date = e.death_date
             /\ result'.entity_died = (e.status # "dead" /\ e2.status = "dead")
      ]_vars

\* C2 witness: a delta took a dying entity to health 0; it is dead, the death
\* timestamp is set and the call returned true.
C2_Witness ==
    \E e \in entities :
        /\ result.op = "apply_health_delta" /\ result.arg = -25
        /\ result.entity_died
        /\ e.status = "dead" /\ e.health_score = 0 /\ e.death_date # None
        /\ e.health_history.count = 2

\* C8: decay_health(d) changes nothing (no health change, no history row)
\* when d <= 3 or when the entity is not alive; on an alive entity with d > 3
\* one call subtracts exactly min((d - 3) * 2, 20) points, stopping at 0, and
\* writes one history row.
C8_Decay ==
    [][\A e \in entities : \A e2 \in entities' :
          result'.op = "decay_health" =>
             LET d == result'.arg
                 amount == IF (d - 3) * 2 < 20 THEN (d - 3) * 2 ELSE 20
             IN IF e.status = "alive" /\ d > 3
                THEN /\ e2.health_score =
                           IF e.health_score - amount < 0 THEN 0
                           ELSE e.health_score - amount
                     /\ e2.health_history.count = e.health_history.count + 1
                ELSE e2 = e
      ]_vars

\* C8 witness: 14 days of inactivity on a fresh entity cost the capped 20
\* points, not (14 - 3) * 2 = 22.
C8_Witness ==
    \E e \in entities :
        /\ result.op = "decay_health" /\ result.arg = 14
        /\ e.health_score = 80
        /\ e.health_history.count = 1
        /\ e.health_history.newest.change_reason = "daily_decay"

\* C3: while an entity is dead, a commit-driven update, a decay and a manual
\* health update are each rejected and leave health_score, status, death
\* timestamp, cooldown and health history as they were.
C3_DeadIgnoresUpdates ==
    [][\A e \in entities :
          (/\ e.status = "dead"
           /\ result'.op \in {"apply_commit_impact", "apply_daily_decay",
                              "update_entity_health"})
          => (entities' = entities /\ ~result'.ok)
      ]_vars

\* C3 witness: a commit-driven update reached a dead entity and was refused.
C3_Witness ==
    \E e \in entities :
        /\ e.status = "dead" /\ e.health_score = 0 /\ e.death_date # None
        /\ result.op = "apply_commit_impact" /\ ~result.ok
        /\ result.reason = "Entity is dead"

\* C4 (as claimed): a commit-driven update of an entity that is alive or
\* dying and has no cooldown, or an expired one, is accepted.
C4_NotDeadAccepts ==
    [][\A e \in entities :
          (/\ result'.op = "apply_commit_impact"
           /\ e.status \in {"alive", "dying"}
           /\ (e.interaction_cooldown_until = None
                 \/ e.interaction_cooldown_until <= now))
          => result'.ok
      ]_vars

\* C5 (as claimed): a revive request on an entity whose status is alive or
\* dying fails and leaves the entity as it was.
C5_ReviveOnlyFromDead ==
    [][\A e \in entities :
          (result'.op = "revive_entity" /\ e.status \in {"alive", "dying"})
          => (~result'.ok /\ entities' = entities)
      ]_vars

\* C6 (as claimed): reviving a dead entity with initial_health h in 1..50
\* leaves it alive with health exactly h, no death timestamp and a revival
\* counter one greater.
C6_ReviveAlive ==
    [][\A e \in entities : \A e2 \in entities' :
          (/\ result'.op = "revive_entity" /\ e.status = "dead"
           /\ result'.reason # "Entity not found"
           /\ result'.arg \in 1 .. 50)
          => /\ e2.status = "alive"
             /\ e2.health_score = result'.arg
             /\ e2.death_date = None
             /\ e2.metadata_json.revival_count = e.metadata_json.revival_count + 1
      ]_vars

\* C6 (amended): reviving a dead entity with initial_health h in 1..50 leaves
\* it with health exactly h, no death timestamp, no cooldown and a revival
\* counter one greater; its status is alive when h > 15 and dying when h <= 15.
C6_ReviveStatus ==
    [][\A e \in entities : \A e2 \in entities' :
          (/\ result'.op = "revive_entity" /\ e.status = "dead"
           /\ result'.reason # "Entity not found"
           /\ result'.arg \in 1 .. 50)
          => /\ result'.ok
             /\ e2.status = (IF result'.arg > 15 THEN "alive" ELSE "dying")
             /\ e2.health_score = result'.arg
             /\ e2.death_date = None
             /\ e2.interaction_cooldown_until = None
             /\ e2.metadata_json.revival_count = e.metadata_json.revival_count + 1
      ]_vars

\* C6 witness: an entity that had died was revived with initial_health 15 and
\* is dying at health 15.
C6_Witness ==
    \E e \in entities :
        /\ result.op = "revive_entity" /\ result.ok /\ result.arg = 15
        /\ e.health_history.newest.change_reason = "revival"
        /\ e.status = "dying" /\ e.health_score = 15 /\ e.death_date = None
        /\ e.metadata_json.revival_count = 1
        /\ e.health_history.count = 3

C9_MonitoringNeedsEntity ==
    \A r \in repositories : r.monitoring_active => entity_of(r) # {}

\* C10: whatever way create requests interleave, a repository never has more
\* than one Entity row, and a create request that meets a repository with an
\* entity is answered 400 and adds no Entity row and no birth history row,
\* committed or pending.
C10_OneEntity ==
    [][/\ \A r \in repositories' :
             Cardinality({e \in entities' : e.repository_id = r.id}) <= 1
       /\ \A r \in repositories :
             (result'.op = "create_entity_for_repository" /\ entity_of(r) # {})
             => /\ ~result'.ok
                /\ result'.reason \in {"Entity already exists for this repository",
                                       "Failed to create entity"}
                /\ entities' = entities
                /\ tx'[result'.arg].rows = {}
      ]_vars

\* C10 witness: a request that passed the existence test lost the race: its
\* INSERT met the row another request had committed meanwhile.
C10_Witness ==
    /\ result.op = "create_entity_for_repository" /\ ~result.ok
    /\ result.reason = "Failed to create entity"
    /\ Cardinality(entities) = 1

\* C11 (as claimed): a revive request on a dead entity whose reset cooldown
\* (48 hours from its death timestamp) is still running is rejected and
\* leaves the entity as it was.
C11_ResetCooldown ==
    [][\A e \in entities :
          (/\ result'.op = "revive_entity"
           /\ e.status = "dead"
           /\ ~can_be_reset(e, now))
          => (~result'.ok /\ entities' = entities)
      ]_vars

\* C12: a push delivery persists a CommitAnalysis row only for a commit of
\* its payload that has at most one parent and whose author.username is the
\* repository owner's username, and when it changes the entity's health the
\* change is the health impact of such a row; merge commits and commits of
\* other authors produce neither.
C12_OnlyOwnerNonMerge ==
    [][result'.op = "push" =>
          \A r \in repositories : \A u \in users :
             (r.github_repo_id = result'.arg.github_repo_id /\ u.id = r.user_id) =>
                LET commits == result'.arg.commits
                    relevant == {commits[i].id : i \in
                                   {k \in 1 .. Len(commits) :
                                       /\ commits[k].parents <= 1
                                       /\ commits[k].author.username = u.username}}
                    created == commit_analyses' \ commit_analyses
                IN /\ \A a \in created : a.commit_sha \in relevant
                   /\ \A e \in entities : \A e2 \in entities' :
                         (e2.id = e.id /\ e2.health_history # e.health_history) =>
                            \E a \in created :
                               /\ a.commit_sha \in relevant
                               /\ a.id = e2.health_history.newest.commit_analysis_id
                               /\ e2.health_score =
                                     Clamp(e.health_score + a.health_impact)
      ]_vars

\* C12 witness: a delivery carried another author's commit and the owner's;
\* one row exists, for the owner's commit, and its impact was applied.
C12_Witness ==
    /\ result.op = "push" /\ result.ok
    /\ Len(result.arg.commits) = 2
    /\ result.arg.commits[1].author.username = "bob"
    /\ Cardinality(commit_analyses) = 1
    /\ \A a \in commit_analyses : a.commit_sha = "a1"
    /\ \E e \in entities :
          /\ e.health_history.newest.change_reason = "commit_analysis"
          /\ e.health_history.newest.commit_analysis_id = 1
          /\ e.health_score = 57

\* C13 (as claimed): after a push delivery with a non-empty commits list has
\* been processed for a monitored repository, the repository's
\* last_commit_sha is the id of the payload commit with the latest timestamp
\* and last_monitored_at is the time of the delivery.
C13_LastCommitSha ==
    [][\A r \in repositories : \A r2 \in repositories' :
          (/\ result'.op = "push" /\ result'.ok
           /\ r.github_repo_id = result'.arg.github_repo_id
           /\ r.monitoring_active
           /\ r2.id = r.id
           /\ Len(result'.arg.commits) > 0)
          => LET commits == result'.arg.commits
             IN /\ \E i \in 1 .. Len(commits) :
                      /\ r2.last_commit_sha = commits[i].id
                      /\ \A j \in 1 .. Len(commits) :
                            Instant(commits[j]) <= Instant(commits[i])
                /\ r2.last_monitored_at = now
      ]_vars

\* C14: a push delivery for a repository whose monitoring is disabled is
\* refused and changes nothing: no CommitAnalysis row is created, and the
\* entity (health, status, cooldown, history) and the repository
\* (last_commit_sha, last_monitored_at) stay as they were.
C14_DisabledChangesNothing ==
    [][\A r \in repositories :
          (/\ result'.op = "push"
           /\ r.github_repo_id = result'.arg.github_repo_id
           /\ ~r.monitoring_active)
          => /\ ~result'.ok
             /\ commit_analyses' = commit_analyses
             /\ entities' = entities
             /\ repositories' = repositories
      ]_vars

\* C14 witness: monitoring had been enabled, a delivery was processed, and
\* monitoring was disabled again; a delivery with a commit of the owner was
\* then refused.
C14_Witness ==
    /\ result.op = "push" /\ ~result.ok
    /\ result.reason = "Monitoring not active"
    /\ Len(result.arg.commits) = 1
    /\ result.arg.commits[1].id = "a1"
    /\ \E r \in repositories :
          /\ ~r.monitoring_active
          /\ r.last_commit_sha = "a1"
    /\ Cardinality(commit_analyses) = 2

C16_RefreshNeedsActiveSession ==
    [][ /\ (result'.op = "refresh" /\ result'.ok) =>
              /\ result'.arg.signed
              /\ result'.arg.type = "refresh"
              /\ now < result'.arg.exp
              /\ \E session \in user_sessions :
                    /\ session.refresh_token_id = result'.arg.jti
                    /\ session.is_active
                    /\ session.expires_at >= now
        /\ \A session \in user_sessions :
              \E later \in user_sessions' :
                  /\ later.id = session.id
                  /\ later.refresh_token_id = session.refresh_token_id
                  /\ ~session.is_active => ~later.is_active
        /\ \A s1, s2 \in user_sessions' :
              s1.refresh_token_id = s2.refresh_token_id => s1 = s2
      ]_vars

\* a well-formed, unexpired refresh token is refused because its session was
\* revoked, while a later sign-in of the same user holds an active session
C16_Witness ==
    /\ result.op = "refresh"
    /\ ~result.ok
    /\ verify_token(result.arg, "refresh", now)
    /\ \E session \in user_sessions :
          /\ session.refresh_token_id = result.arg.jti
          /\ ~session.is_active
          /\ session.expires_at >= now
          /\ \E other \in user_sessions :
                /\ other.user_id = session.user_id
                /\ other.id # session.id
                /\ other.is_active

\* C17: a request of user a that names a repository or an entity of another
\* user is answered not-found with nothing but the request in the response,
\* and leaves the three tables as they were; a request for a commit analysis
\* of another user returns no such row, whichever repository id goes with it.
C17_OwnershipIsolation ==
    [][\A a \in users :
          LET foreign_repositories == {r \in repositories : r.user_id # a.id}
              foreign_entities ==
                  {e \in entities : \E r \in foreign_repositories : r.id = e.repository_id}
              foreign_analyses ==
                  {x \in commit_analyses :
                      \E r \in foreign_repositories : r.id = x.repository_id}
          IN /\ \A r \in foreign_repositories :
                   (\/ result'.op = "get_repository" /\ GetRepositoryAs(a, r.id)
                    \/ /\ result'.op = "create_entity_for_repository"
                       /\ \E entity_type \in OwnerEntityTypes :
                             CreateEntityAs(a, r.id, entity_type)
                    \/ /\ result'.op = "enable_repository_monitoring"
                       /\ EnableMonitoringAs(a, r.id, TRUE, TRUE)
                    \/ /\ result'.op = "disable_repository_monitoring"
                       /\ DisableMonitoringAs(a, r.id, TRUE)
                    \/ result'.op = "delete_repository" /\ DeleteRepositoryAs(a, r.id)
                    \/ /\ result'.op = "get_commit_analysis"
                       /\ \E commit_sha \in CommitShas :
                             GetCommitAnalysisAs(a, r.id, commit_sha)
                    \/ /\ result'.op = "delete_repository_analyses"
                       /\ DeleteRepositoryAnalysesAs(a, r.id))
                   => /\ result' = NotFound(result'.op, "Repository not found", r.id)
                      /\ UNCHANGED <<repositories, entities, commit_analyses>>
             /\ \A e \in foreign_entities :
                   (\/ result'.op = "get_entity" /\ GetEntityAs(a, e.id)
                    \/ /\ result'.op = "apply_daily_decay"
                       /\ \E elapsed_days \in OwnerElapsedDays :
                             DailyDecayAs(a, e.id, elapsed_days)
                    \/ /\ result'.op = "update_entity_health"
                       /\ \E health_change \in OwnerHealthChanges :
                             ManualHealthAs(a, e.id, health_change)
                    \/ /\ result'.op = "revive_entity"
                       /\ \E initial_health \in OwnerInitialHealths :
                             ReviveAs(a, e.id, initial_health)
                    \/ result'.op = "delete_entity" /\ DeleteEntityAs(a, e.id))
                   => /\ result' = NotFound(result'.op, "Entity not found", e.id)
                      /\ UNCHANGED <<repositories, entities, commit_analyses>>
             /\ \A x \in foreign_analyses, repository_id \in NamedIds(repositories) :
                   (/\ result'.op = "get_commit_analysis"
                    /\ GetCommitAnalysisAs(a, repository_id, x.commit_sha))
                   => /\ result'.ok => result'.arg.analysis \cap foreign_analyses = {}
                      /\ UNCHANGED <<repositories, entities, commit_analyses>>
      ]_vars

\* alice's health update naming bob's entity was answered not-found while the
\* entity is there, alive and as created
C17_Witness ==
    /\ result.op = "update_entity_health"
    /\ result.reason = "Entity not found"
    /\ \E a \in users, e \in entities, r \in repositories :
          /\ a.username = "alice"
          /\ result.arg = [id |-> e.id]
          /\ r.id = e.repository_id
          /\ r.user_id # a.id
          /\ e = create_entity(e.id, r.id, e.entity_type)

\* C18: one call of analyze_commit adds exactly one row, whatever the agent's
\* calls do; when every call to the AI fails the row holds the heuristic
\* engine's quality score and health impact and the tag 'basic'; the tag is
\* 'ai_powered' only when the model's quality analysis succeeded and the row
\* holds its score.
C18_MethodTag ==
    [][result'.op = "analyze_commit" =>
          LET c == result'.arg
              added == commit_analyses' \ commit_analyses
              ai_failed == /\ c.ai_enabled
                           /\ c.quality_call # "ok"
                           /\ (c.impact_call # "ok" \/ c.has_commit_date)
          IN /\ Cardinality(added) = 1
             /\ commit_analyses \subseteq commit_analyses'
             /\ \A row \in added :
                   /\ ai_failed =>
                         /\ row.quality_score = c.basic_quality
                         /\ row.health_impact =
                               calculate_health_impact(c.basic_quality, c.total_changes)
                         /\ row.analysis_method = "basic"
                   /\ row.analysis_method = "ai_powered" =>
                         /\ c.ai_enabled
                         /\ c.quality_call = "ok"
                         /\ row.quality_score = Clamp100(c.ai_quality)
      ]_vars

\* C19: every persisted analysis has a health impact from -20 to 20
C19_ImpactInRange ==
    \A a \in commit_analyses :
        MinImpact <= a.health_impact /\ a.health_impact <= MaxImpact

\* the heuristic path on the largest commit of the best band, which the clamp
\* brings to 20; the smallest commit of the worst band; and an AI suggestion
\* of 35 stored as 20
C19_Witness ==
    /\ result.op = "analyze_commit"
    /\ ~result.arg.ai_enabled
    /\ result.arg.total_changes = 100000
    /\ result.arg.basic_quality = 95
    /\ \E a \in commit_analyses :
          /\ a.id = 2
          /\ a.analysis_method = "basic"
          /\ a.health_impact = MaxImpact

\* C20: a connection whose token parameter is missing, or is not a signed,
\* unexpired access token of an existing user, is closed with a code from 4000
\* to 4999 and leaves both maps of the registry as they were; and a socket
\* that appears in connection_info or in a set of active_connections was put
\* there by a connection whose token is a signed, unexpired access token of
\* the existing user it is filed under.
C20_RegistryNeedsUser ==
    [][LET resolved(token, user_id) ==
               /\ token # NoToken
               /\ verify_token(token, "access", now)
               /\ token.sub = user_id
               /\ \E user \in users : user.id = user_id
           accepted(websocket, user_id) ==
               /\ result'.op = "websocket_endpoint"
               /\ result'.ok
               /\ result'.arg.websocket = websocket
               /\ resolved(result'.arg.token, user_id)
       IN /\ (/\ result'.op = "websocket_endpoint"
              /\ ~resolved(result'.arg.token, result'.arg.token.sub))
             => /\ ~result'.ok
                /\ result'.arg.code \in 4000 .. 4999
                /\ UNCHANGED <<active_connections, connection_info>>
                /\ result'.arg.websocket \notin DOMAIN connection_info'
          /\ \A websocket \in DOMAIN connection_info' \ DOMAIN connection_info :
                accepted(websocket, connection_info'[websocket].user_id)
          /\ \A user_id \in DOMAIN active_connections' :
                \A websocket \in active_connections'[user_id] :
                    (\/ user_id \notin DOMAIN active_connections
                     \/ websocket \notin active_connections[user_id])
                    => accepted(websocket, user_id)
      ]_vars

\* an access token of a sign-in, presented after it expired, is refused with
\* code 4001 while the socket the same user opened before is in the registry
C20_Witness ==
    /\ result.op = "websocket_endpoint"
    /\ ~result.ok
    /\ result.arg.code = 4001
    /\ result.arg.token \in IssuedAccessTokens
    /\ result.arg.token.exp <= now
    /\ \E user \in users : user.id = result.arg.token.sub
    /\ result.arg.token.sub \in DOMAIN active_connections
    /\ result.arg.websocket \notin DOMAIN connection_info
    /\ \E websocket \in DOMAIN connection_info :
          /\ connection_info[websocket].user_id = result.arg.token.sub
          /\ websocket \in active_connections[result.arg.token.sub]

\* C21 (as claimed): the cleanup task started at process startup never
\* terminates, however its scan interleaves with the connects and disconnects
\* of the socket-serving loop.
C21_CleanupNeverTerminates == cleanup.pc # "stopped"

\* C22 (as claimed): a manual health update of an entity that is not dead,
\* with a change from -50 to 50, is applied (the health becomes the clamped
\* sum) whether or not a commit cooldown is running, and leaves the cooldown
\* expiry as it was; on a dead entity, or with a change outside -50..50, it
\* is rejected and leaves the entity as it was.
C22_ManualIgnoresCooldown ==
    [][\A e \in entities :
          (/\ result'.op = "update_entity_health"
           /\ result'.reason # "Entity not found")
          => IF e.status # "dead" /\ result'.arg \in -50 .. 50
             THEN /\ result'.ok
                  /\ \E e2 \in entities' :
                        /\ e2.id = e.id
                        /\ e2.health_score = Clamp(e.health_score + result'.arg)
                        /\ e2.interaction_cooldown_until = e.interaction_cooldown_until
             ELSE ~result'.ok /\ entities' = entities
      ]_vars

LostUpdate ==
    \E e \in entities : \E e2 \in entities' :
        /\ e2.id = e.id
        /\ e2.health_history # e.health_history
        /\ LET row == e2.health_history.newest
               delta == IF result'.op = "update_entity_health" THEN {result'.arg}
                        ELSE {a.health_impact : a \in
                                {x \in commit_analyses' : x.id = row.commit_analysis_id}}
           IN ~(/\ e2.health_history.count = e.health_history.count + 1
                /\ \E d \in delta : e2.health_score = Clamp(e.health_score + d))

\* two health updates of the same entity are under way together: a manual
\* update has just been committed while a delivery was past its awaits, and
\* the delivery is about to apply an impact that the entity can receive
Overlap ==
    \E q \in RequestIds :
        /\ in_flight[q].pc = "applying"
        /\ in_flight[q].analyses # <<>>
        /\ result.op = "update_entity_health" /\ result.ok
        /\ \E e \in entities :
              /\ e.repository_id = in_flight[q].repository_id
              /\ is_alive(e) /\ can_receive_health_update(e, now)
              /\ e.health_history.count < MaxHistory

\* C24 (as claimed): when a delivery and a manual update of the same entity
\* are under way together, the read-modify-write of the delivery overlaps the
\* manual update: its step writes a health that differs from applying both
\* deltas one after the other (a lost update).
C24_LostUpdateOccurs == Overlap => ENABLED (ConcurrentNext /\ LostUpdate)

\* C24 (amended): whatever way two push deliveries and manual updates of the
\* same entity interleave, every accepted update adds one history row and
\* sets the health to the clamped sum of the health committed by the update
\* before it and its own delta: no update is lost.
C24_UpdatesSerialized == [][~LostUpdate]_vars

\* C24 witness: two deliveries were in flight together; one applied its
\* impact, a manual update followed, and the other delivery, past its
\* analysis, is about to apply its own.
C24_Witness ==
    /\ result.op = "update_entity_health" /\ result.ok
    /\ \E q \in RequestIds : in_flight[q].pc = "applying"
    /\ \E e \in entities :
          /\ e.health_history.count = 3
          /\ e.health_history.newest.change_reason = "manual"
          /\ e.interaction_cooldown_until # None
          /\ Cardinality(commit_analyses) = 2


\* C25: send_personal_message tries every socket the user has when the call
\* starts, whether or not an earlier send failed; when it returns, exactly the
\* sockets of the user whose send failed are gone from both maps of the
\* registry, and every other socket and user is as before
C25_FailedSendsRemoved == [][result'.op = "send_personal_message" => LET a == result'.arg before == IF a.user_id \in DOMAIN active_connections THEN active_connections[a.user_id] ELSE {} failed == before \cap a.broken IN /\ a.attempted = before /\ a.connections_to_remove = failed /\ DOMAIN connection_info' = DOMAIN connection_info \ failed /\ \A w \in DOMAIN connection_info' : connection_info'[w] = connection_info[w] /\ DOMAIN active_connections' = {u \in DOMAIN active_connections : active_connections[u] \ failed # {}} /\ \A u \in DOMAIN active_connections' : active_connections'[u] = active_connections[u] \ failed]_vars

\* the first of two sockets of a user failed and the second was still tried
\* and stays registered
C25_Witness == /\ result.op = "send_personal_message" /\ result.arg.attempted = {1, 2} /\ result.arg.connections_to_remove = {1} /\ DOMAIN connection_info = {2} /\ result.arg.user_id \in DOMAIN active_connections /\ active_connections[result.arg.user_id] = {2}


\* C26: whenever no disconnect is under way, a socket is a key of
\* connection_info with user u exactly when it is in active_connections[u],
\* and no user is mapped to an empty set
C26_RegistryMapsAgree == cleanup.pc # "discarded" => ((\A w \in DOMAIN connection_info : (connection_info[w].user_id \in DOMAIN active_connections /\ w \in active_connections[connection_info[w].user_id])) /\ (\A u \in DOMAIN active_connections : (active_connections[u] # {} /\ \A x \in active_connections[u] : (x \in DOMAIN connection_info /\ connection_info[x].user_id = u))))

\* C26: disconnecting a socket that is not registered changes nothing
C26_UnknownDisconnect == [][(result'.op = "disconnect" /\ result'.reason = "unknown") => UNCHANGED <<active_connections, connection_info>>]_vars


\* C27: get_entity_stats returns a trend among improving, declining and
\* stable, without raising, whatever the number of health-history rows
C27_TrendNeverRaises == result.op = "get_entity_stats" => (result.ok /\ result.reason \in {"improving", "declining", "stable"})


\* C28: the score of the empty message is 0; the score of any other message
\* is 50, plus 15, -20 or -10 for the length of the stripped first line, plus
\* 20 for a conventional prefix, 5 for an uppercase first character, 5 for a
\* non-empty first line without a trailing period, 10 for a body, minus 30
\* for a bad pattern, clamped to 0..100; 'feat(auth): add JWT token refresh
\* functionality' scores 90 and 'fix' scores 5
C28_MessageScore == result.op = "_analyze_commit_message" => LET m == result.arg.message score == result.arg.score fl == first_line_of(m) IN /\ (m = <<>> => score = 0) /\ (m # <<>> => score = Clamp100(50 + length_score(fl) + 20 * Bit(is_conventional(fl)) + 5 * Bit(is_capitalized(fl)) + 5 * Bit(no_period(fl)) + 10 * Bit(has_body(m)) - 30 * Bit(is_bad(fl)))) /\ (m = FeatMessage => score = 90) /\ (m = FixMessage => score = 5)

\* the conventional message of the example has been scored: 50 + 15 + 20 + 5
C28_Witness == result.op = "_analyze_commit_message" /\ result.arg.message = FeatMessage /\ result.arg.score = 90

\* C28 as stated: the formula holds for every message, the empty one
\* included, 'feat(auth): add JWT token refresh functionality' scores 95 and
\* 'fix' scores at most 20
C28_ScoreAsStated == result.op = "_analyze_commit_message" => LET m == result.arg.message score == result.arg.score fl == first_line_of(m) IN /\ score = Clamp100(50 + length_score(fl) + 20 * Bit(is_conventional(fl)) + 5 * Bit(fl # <<>> /\ isupper(fl[1])) + 5 * Bit(fl = <<>> \/ fl[Len(fl)] # ".") + 10 * Bit(has_body(m)) - 30 * Bit(is_bad(fl))) /\ (m = FeatMessage => score = 95) /\ (m = FixMessage => score <= 20)


C30_StatusMatchesHealth == \A e \in entities : /\ e.status \in {"alive", "dying", "dead"} /\ (e.status = "alive" => e.health_score > 15) /\ (e.status = "dying" => (1 <= e.health_score /\ e.health_score <= 15)) /\ (e.status = "dead" => e.health_score = 0) /\ ((e.death_date # None) <=> e.status = "dead")


\* an entity that died has been revived with health 15: it is dying, and its
\* death_date is cleared
C30_Witness == \E e \in entities : /\ e.metadata_json.revival_count = 1 /\ e.status = "dying" /\ e.health_score = 15 /\ e.death_date = None /\ e.health_history.newest.change_reason = "revival"

=============================================================================
